---------------------------- MODULE Spec2Model ----------------------------
(* A model of the schema-aware query agent of portus/databao:               *)
(*   - get_inspection_cache_key          (caching/schema_inspection_cache)  *)
(*   - InMemCache                        (caches/in_mem_cache)              *)
(*   - DuckDBCollection schema cache     (data_source/duckdb)               *)
(*   - SqlAlchemyDataSource semaphore    (data_source/sqlalchemy_source)    *)
(*   - LighthouseAgent.execute           (agent/lighthouse)                 *)
(*   - ainspect_schema per-column DiskCache (data_source/sqlalchemy_source) *)
(*   - sqlalchemy_to_postgres_url         (tests/test_duckdb_utils)          *)
(*   - AgentExecutor compiled-graph cache (agents/base)                     *)
(*   - LazyPipe                          (core/lazy_pipe)                   *)
(*   - ainspect_schema on the event loop (data_source/sqlalchemy_source)    *)
(*   - DataEngine.get_source_schema      (core/data_engine)                 *)
(*   - default source names              (sessions/in_memory, duckdb)       *)
(*   - LLMConfig                         (configs/llm)                      *)
(*   - expand_env_vars_str               (utils)                            *)
(* Each component has its own specification over the shared variables.      *)
EXTENDS Integers, Sequences, FiniteSets, TLC

VARIABLES
    \* ---- get_inspection_cache_key (KeySpec)
    key_pc,          \* "args" | "called"
    key_args,        \* the two calls' arguments: indices into SemanticDicts / OptionsList
    key_out,         \* the two returned strings (sequences of JSON tokens)
    \* ---- InMemCache (MemSpec)
    _cache,          \* InMemCache._cache : key -> value
    put_log,         \* history of put(k, v) calls, oldest first
    got,             \* outcome of the last get
    read,            \* what AgentExecutor._get_messages returned, "none" before
    \* ---- DuckDBCollection (CollSpec, AgentSpec)
    _sources,        \* DuckDBCollection._sources : the names of the added sources
    _data_changed,   \* DuckDBCollection._data_changed
    registered,      \* number of sources registered on the current engine
    _schema_inspection_cache,   \* cache key -> DatabaseSchema
    call,            \* per caller: the ainspect_schema call in flight
    ret,             \* what the last inspect call to return gave its caller
    inspect_runs,    \* cache key -> runs of the underlying inspector since the last reset
    stored_ok,       \* keys stored by a successful inspection since the last reset
    overlapped,      \* some call started while another was in flight, since the last reset
    \* ---- SqlAlchemyDataSource (SemSpec)
    _semaphore,      \* the value of SqlAlchemyDataSource._semaphore
    op_pc,           \* per operation: "idle" | "waiting" | "holding"
    \* ---- LighthouseAgent.execute (AgentSpec)
    pc,              \* where execute is: "idle" | "inspect_schema" | "system_prompt" |
                     \*   "init_state" | "stream" | "returned" | "raised"
    in_messages,     \* the caller's conversation
    messages,        \* the local variable messages of execute
    db_schema,       \* the local variable db_schema
    last_state,      \* the last chunk the graph streamed
    node,            \* the graph node that runs next: "reasoning" | "tool" | "end"
    steps,           \* supersteps the graph run has taken
    result,          \* the ExecutionResult execute returned
    exception,       \* the exception raised in execute, "" for none
    raised_in,       \* the step of execute that raised it
    tool_log,        \* what the backend did on each tool call of the run
    n_varied,        \* tool calls so far that did not return the default table
    \* ---- SqlAlchemyDataSource.ainspect_schema as a function (InspectSpec)
    insp_pc,         \* "args" | "done"
    insp_args,       \* the inputs of the call
    insp_semantic_dict, \* the caller's semantic_dict object, as the call leaves it
    insp_out,        \* what the call returned or raised
    \* ---- SqlAlchemyDataSource._inspect_column_values as a function (ProfileSpec)
    prof_pc,         \* "args" | "done"
    prof_args,       \* the options, the column and what the backend answers
    prof_out,        \* the queries issued and what the call returned
    \* ---- DataEngine.execute and its query cache (EngineSpec)
    query_cache,     \* DataEngine.cache : None | "DiskCache"
    sql,             \* the entries of the disk cache: query -> table, None for no entry
    backend,         \* query -> the table the data source answers now
    exec_call,       \* per task: the execute call in flight
    exec_ret,        \* what the last execute call to return gave its caller
    enable_pc,       \* "idle" | "validating" | "raised": enable_and_validate_query_cache
    settled,         \* query -> the first table a call stored and returned, None before
    backend_changed, \* the backend's answer to some query changed since construction
    \* ---- AgentExecutor._process_new_opas over the threads of a session (ThreadSpec)
    thr_opas,        \* per thread: Pipe.__opas
    session_cache,   \* per cache scope: key -> pickled value
    thr_pc,          \* per thread: "idle" | "graph" (between the two cache accesses)
    thr_messages,    \* per thread: the messages _process_new_opas returned to the run
    proc_ret,        \* the last call of _process_new_opas: arguments, result, cache around it
    converted,       \* per thread: how often each opa was made a HumanMessage
    \* ---- SqlAlchemyDataSource.execute / aexecute: what reaches the backend (SubmitSpec)
    sub_pc,          \* per call: "idle" | "waiting" | "checkout" | "running" | "done"
    sub_permits,     \* the value of the source's semaphore
    submissions,     \* per call: times the query was submitted to the backend
    pings,           \* per call: failed liveness checks of the pool during checkout
    sub_out,         \* per call: what the call returned, "" before
    \* ---- ainspect_schema with cache_intermediate_results: the per-column cache (ColumnCacheSpec)
    cc_req,          \* per request: where the call is, its arguments, its DiskCache handle
    cc_task,         \* per request and column: the process_column task
    col_cache,       \* the entries on disk: cache key -> ColumnSchema
    cc_permits,      \* the value of the source's semaphore
    cc_runs,         \* column -> times a caching request profiled it
    cc_ok,           \* column -> times such a profiling succeeded
    cc_overlapped,   \* some request started while another had not finished
    \* ---- sqlalchemy_to_postgres_url (UrlSpec)
    url_pc,          \* "string" | "parsed" | "converted" | "again"
    url_str,         \* the input URL string (a sequence of tokens)
    url_in,          \* make_url(url_str)
    url_out,         \* sqlalchemy_to_postgres_url(url_in)
    url_again,       \* sqlalchemy_to_postgres_url(make_url(url_out))
    \* ---- AgentExecutor compiled-graph cache (GraphSpec)
    _cached_graph,   \* _cached_compiled_graph, _cached_connection_id, _cached_llm_config_id
    gr_session,      \* the objects the session holds: its llm_config and a DuckDB connection
    gr_serial,       \* number of objects created so far
    gr_ret,          \* what the last _get_or_create_cached_graph did and returned
    \* ---- LazyPipe (PipeSpec)
    lazy_pipe,       \* the private fields of one LazyPipe
    lp_runs,         \* calls of the data executor and of the visualizer so far
    lp_ret,          \* what the last call on the pipe did and returned
    \* ---- one run of ainspect_schema on the event loop (InspectRunSpec)
    run_cfg,         \* ceiling, number of tables, table of each column
    sem_value,       \* asyncio.Semaphore._value
    sem_waiters,     \* asyncio.Semaphore._waiters, first in first out
    col_pc,          \* position of each process_column task
    tbl_pc,          \* position of each process_table task
    aex_pc,          \* position of an aexecute on the same source
    run_pc,          \* position of ainspect_schema
    sem_waited,      \* the tasks that had to queue for a permit
    \* ---- DataEngine.get_source_schema (SchemaSpec)
    _source_schemas, \* DataEngine._source_schemas: source name -> stored schema
    ss_call,         \* the get_source_schema(s) call of each asyncio task
    ss_inspections,  \* get_db_schema calls so far, per source
    ss_ret,          \* how the last get_source_schema ended
    \* ---- default source names (NamesSpec)
    _dbs,            \* InMemSession._dbs: name -> connection
    _dfs,            \* InMemSession._dfs: name -> data frame
    dc_sources,      \* the names of DuckDBCollection._sources, in order
    add_ret,         \* what the last add_db / add_df did
    \* ---- LLMConfig (LlmSpec)
    llm_name,        \* the name passed to LLMConfig(name=...), as characters
    llm_pc,          \* "new", "constructed", "rejected" or "read"
    llm_family,      \* what reading .family gave
    \* ---- expand_env_vars_str (ExpandSpec)
    ev_arg,          \* the argument `path`, as characters
    ev_environ,      \* os.environ
    ev_path,         \* the local `path`
    ev_i,            \* the local `i`
    ev_pc,           \* "start", "loop", "returned" or "raised"
    ev_out           \* the returned string, or the name the KeyError is about

keyVars == <<key_pc, key_args, key_out>>
memVars == <<_cache, put_log, got, read>>
collVars == <<_sources, _data_changed, registered, _schema_inspection_cache,
              call, ret, inspect_runs, stored_ok, overlapped>>
semVars == <<_semaphore, op_pc>>
agentVars == <<pc, in_messages, messages, db_schema, last_state, node, steps, result,
               exception, raised_in, tool_log, n_varied>>
inspVars == <<insp_pc, insp_args, insp_semantic_dict, insp_out>>
baseVars == <<keyVars, memVars, collVars, semVars, agentVars>>
profVars == <<prof_pc, prof_args, prof_out>>
engVars == <<query_cache, sql, backend, exec_call, exec_ret, enable_pc, settled, backend_changed>>
thrVars == <<thr_opas, session_cache, thr_pc, thr_messages, proc_ret, converted>>
subVars == <<sub_pc, sub_permits, submissions, pings, sub_out>>
ccVars == <<cc_req, cc_task, col_cache, cc_permits, cc_runs, cc_ok, cc_overlapped>>
urlVars == <<url_pc, url_str, url_in, url_out, url_again>>
graphVars == <<_cached_graph, gr_session, gr_serial, gr_ret>>
pipeVars == <<lazy_pipe, lp_runs, lp_ret>>
runVars == <<run_cfg, sem_value, sem_waiters, col_pc, tbl_pc, aex_pc, run_pc, sem_waited>>
schemaVars == <<_source_schemas, ss_call, ss_inspections, ss_ret>>
namesVars == <<_dbs, _dfs, dc_sources, add_ret>>
llmVars == <<llm_name, llm_pc, llm_family>>
envVars == <<ev_arg, ev_environ, ev_path, ev_i, ev_pc, ev_out>>
extVars == <<inspVars, profVars, engVars, thrVars, subVars, ccVars, urlVars, graphVars, pipeVars, runVars, schemaVars, namesVars, llmVars, envVars>>
exceptInsp == <<profVars, engVars, thrVars, subVars, ccVars, urlVars, graphVars, pipeVars, runVars, schemaVars, namesVars, llmVars, envVars>>
exceptProf == <<inspVars, engVars, thrVars, subVars, ccVars, urlVars, graphVars, pipeVars, runVars, schemaVars, namesVars, llmVars, envVars>>
exceptEng == <<inspVars, profVars, thrVars, subVars, ccVars, urlVars, graphVars, pipeVars, runVars, schemaVars, namesVars, llmVars, envVars>>
exceptThr == <<inspVars, profVars, engVars, subVars, ccVars, urlVars, graphVars, pipeVars, runVars, schemaVars, namesVars, llmVars, envVars>>
exceptSub == <<inspVars, profVars, engVars, thrVars, ccVars, urlVars, graphVars, pipeVars, runVars, schemaVars, namesVars, llmVars, envVars>>
exceptCc == <<inspVars, profVars, engVars, thrVars, subVars, urlVars, graphVars, pipeVars, runVars, schemaVars, namesVars, llmVars, envVars>>
exceptUrl == <<inspVars, profVars, engVars, thrVars, subVars, ccVars, graphVars, pipeVars, runVars, schemaVars, namesVars, llmVars, envVars>>
exceptGraph == <<inspVars, profVars, engVars, thrVars, subVars, ccVars, urlVars, pipeVars, runVars, schemaVars, namesVars, llmVars, envVars>>
exceptPipe == <<inspVars, profVars, engVars, thrVars, subVars, ccVars, urlVars, graphVars, runVars, schemaVars, namesVars, llmVars, envVars>>
exceptRun == <<inspVars, profVars, engVars, thrVars, subVars, ccVars, urlVars, graphVars, pipeVars, schemaVars, namesVars, llmVars, envVars>>
exceptSchema == <<inspVars, profVars, engVars, thrVars, subVars, ccVars, urlVars, graphVars, pipeVars, runVars, namesVars, llmVars, envVars>>
exceptNames == <<inspVars, profVars, engVars, thrVars, subVars, ccVars, urlVars, graphVars, pipeVars, runVars, schemaVars, llmVars, envVars>>
exceptLlm == <<inspVars, profVars, engVars, thrVars, subVars, ccVars, urlVars, graphVars, pipeVars, runVars, schemaVars, namesVars, envVars>>
exceptEnv == <<inspVars, profVars, engVars, thrVars, subVars, ccVars, urlVars, graphVars, pipeVars, runVars, schemaVars, namesVars, llmVars>>
vars == <<baseVars, extVars>>

-----------------------------------------------------------------------------
(* JSON values.  A Python dict keeps insertion order, so a dict is a        *)
(* sequence of key/value pairs with distinct keys; a scalar is the token    *)
(* json.dumps prints for it.                                                *)

Scalar(tok) == [t |-> "scalar", v |-> <<tok>>]
Dict(pairs) == [t |-> "dict", v |-> pairs]
KV(k, val) == [k |-> k, val |-> val]

\* Python compares dict keys as strings; the keys of the model in that order.
KeyOrder ==
    << "a", "b", "cache_intermediate_results", "columns", "columns_regex",
       "description", "inspect_column_stats", "inspection_options",
       "max_enum_values", "max_unique_rate", "semantic_dict", "t1", "t2",
       "tables", "tables_regex", "value_sampling_strategy" >>

Rank(k) == CHOOSE i \in 1..Len(KeyOrder) : KeyOrder[i] = k

RECURSIVE Concat(_)
Concat(strs) ==
    IF strs = <<>> THEN "" ELSE Head(strs) \o Concat(Tail(strs))

\* The pairs of a dict sorted by key (json.dumps(..., sort_keys=True)).
SortedPairs(pairs) ==
    LET n == Len(pairs)
        pos(i) == Cardinality({j \in 1..n : Rank(pairs[j].k) < Rank(pairs[i].k)}) + 1
    IN  [p \in 1..n |-> pairs[CHOOSE i \in 1..n : pos(i) = p]]

\* The pairs in insertion order (json.dumps without sort_keys).
InsertionPairs(pairs) == pairs

PairOrder(pairs) == SortedPairs(pairs)

\* json.dumps with the default separators ", " and ": ".
RECURSIVE JsonDumps(_)
JsonDumps(x) ==
    IF x.t = "scalar" THEN x.v[1]
    ELSE LET ps == PairOrder(x.v)
             item(i) == (IF i > 1 THEN ", " ELSE "")
                        \o "\"" \o ps[i].k \o "\": " \o JsonDumps(ps[i].val)
         IN  "{" \o Concat([i \in 1..Len(ps) |-> item(i)]) \o "}"

\* InspectionOptions.model_dump_for_cache: the policy fields as a dict.
model_dump_for_cache(o) ==
    Dict(<< KV("value_sampling_strategy", Scalar("\"" \o o.value_sampling_strategy \o "\"")),
            KV("inspect_column_stats", Scalar(o.inspect_column_stats)),
            KV("max_enum_values", Scalar(o.max_enum_values)),
            KV("max_unique_rate", Scalar(o.max_unique_rate)),
            KV("tables_regex", Scalar(o.tables_regex)),
            KV("columns_regex", Scalar(o.columns_regex)),
            KV("cache_intermediate_results", Scalar(o.cache_intermediate_results)) >>)

get_inspection_cache_key(semantic_dict, inspection_options) ==
    LET key_dict == Dict(<< KV("semantic_dict", semantic_dict),
                            KV("inspection_options", model_dump_for_cache(inspection_options)) >>)
    IN  JsonDumps(key_dict)

\* Python's dict equality: the same keys with equal values, whatever the order.
RECURSIVE LogicallyEqual(_, _)
LogicallyEqual(x, y) ==
    IF x.t # y.t THEN FALSE
    ELSE IF x.t = "scalar" THEN x.v = y.v
    ELSE /\ {x.v[i].k : i \in 1..Len(x.v)} = {y.v[j].k : j \in 1..Len(y.v)}
         /\ \A i \in 1..Len(x.v) : \A j \in 1..Len(y.v) :
               x.v[i].k = y.v[j].k => LogicallyEqual(x.v[i].val, y.v[j].val)

-----------------------------------------------------------------------------
(* Inputs of get_inspection_cache_key.                                      *)

All == Scalar("\"all\"")
TableSel(desc, cols) ==
    Dict(<< KV("description", Scalar(desc)), KV("columns", Dict(cols)) >>)
TableSelRev(desc, cols) ==
    Dict(<< KV("columns", Dict(cols)), KV("description", Scalar(desc)) >>)
ColA == KV("a", Scalar("\"id\""))
ColB == KV("b", Scalar("\"\""))
Tables(pairs) == Dict(<< KV("tables", Dict(pairs)) >>)

SemanticDicts ==
    << Scalar("\"full\""),
       Tables(<< KV("t1", All) >>),
       Tables(<< KV("t1", All), KV("t2", All) >>),
       Tables(<< KV("t2", All), KV("t1", All) >>),
       Tables(<< KV("t1", TableSel("\"d\"", <<ColA, ColB>>)) >>),
       Tables(<< KV("t1", TableSel("\"d\"", <<ColB, ColA>>)) >>),
       Tables(<< KV("t1", TableSelRev("\"d\"", <<ColA, ColB>>)) >>),
       Tables(<< KV("t1", TableSel("\"d\"", <<ColA>>)) >>),
       Tables(<< KV("t2", TableSelRev("\"d\"", <<ColB, ColA>>)), KV("t1", All) >>),
       Tables(<< KV("t1", All), KV("t2", TableSel("\"d\"", <<ColA, ColB>>)) >>) >>

Options(strategy, max_enum) ==
    [ value_sampling_strategy |-> strategy,
      inspect_column_stats |-> "false",
      max_enum_values |-> max_enum,
      max_unique_rate |-> "0.5",
      tables_regex |-> "null",
      columns_regex |-> "null",
      cache_intermediate_results |-> "false" ]

OptionsList ==
    << Options("categorical_only", "10"), Options("categorical_only", "20"),
       Options("none", "10"), Options("top_p", "20") >>

\* The options of two calls differ in max_enum_values and in nothing else.
DifferOnlyInMaxEnumValues(o1, o2) ==
    /\ o1.max_enum_values # o2.max_enum_values
    /\ [o1 EXCEPT !.max_enum_values = o2.max_enum_values] = o2

KeyArgs == [sd : 1..Len(SemanticDicts), opt : 1..Len(OptionsList)]

-----------------------------------------------------------------------------
(* KeySpec: two calls of get_inspection_cache_key on drawn arguments.       *)

NoKey == ""

KeyIdle ==
    /\ key_pc = "args"
    /\ key_args = [c \in 1..2 |-> [sd |-> 1, opt |-> 1]]
    /\ key_out = [c \in 1..2 |-> NoKey]

KeyInit ==
    /\ key_pc = "args"
    /\ key_args \in [1..2 -> KeyArgs]
    /\ key_out = [c \in 1..2 |-> NoKey]

KeyOf(a) == get_inspection_cache_key(SemanticDicts[a.sd], OptionsList[a.opt])

\* Both calls return.
KeyCall ==
    /\ key_pc = "args"
    /\ key_out' = [c \in 1..2 |-> KeyOf(key_args[c])]
    /\ key_pc' = "called"
    /\ UNCHANGED <<key_args, memVars, collVars, semVars, agentVars, extVars>>

\* The caller draws the arguments of another second call.
KeyNextArgs ==
    /\ key_pc = "called"
    /\ \E a \in KeyArgs : key_args' = [key_args EXCEPT ![2] = a]
    /\ key_out' = [c \in 1..2 |-> NoKey]
    /\ key_pc' = "args"
    /\ UNCHANGED <<memVars, collVars, semVars, agentVars, extVars>>

-----------------------------------------------------------------------------
(* InMemCache.                                                              *)

MaxPuts == 3
MemKeys == {"messages", "processed_opa_count"}
MemValues == {"b0", "b1", "b2"}
NoGot == [outcome |-> "none", k |-> "", v |-> ""]
NoRead == "none"

MemInitState ==
    /\ _cache = <<>>
    /\ put_log = <<>>
    /\ got = NoGot
    /\ read = NoRead

\* self._cache[k] = v, but an existing entry is kept (first write wins).
StoreIfAbsent(c, k, v) == IF k \in DOMAIN c THEN c ELSE (k :> v) @@ c

\* self._cache[k] = v
Store(c, k, v) == (k :> v) @@ c

put(k, v) ==
    /\ Len(put_log) < MaxPuts
    /\ _cache' = Store(_cache, k, v)
    /\ put_log' = Append(put_log, [k |-> k, v |-> v])
    /\ got' = NoGot

\* pickle.load(buffer): "b0" is the pickle of the empty list.
Unpickle(v) == CASE v = "b0" -> "[]" [] v = "b1" -> "[m1]" [] OTHER -> "[m1, m2]"

\* A missing key yields the empty artifact as a value instead of raising.
GetOrEmpty(k) ==
    /\ got' = [outcome |-> "value", k |-> k,
               v |-> IF k \in DOMAIN _cache THEN _cache[k] ELSE "b0"]
    /\ UNCHANGED <<_cache, put_log>>

\* return self._cache[k]: a missing key raises KeyError.
get(k) ==
    /\ got' = IF k \in DOMAIN _cache
              THEN [outcome |-> "value", k |-> k, v |-> _cache[k]]
              ELSE [outcome |-> "KeyError", k |-> k, v |-> ""]
    /\ UNCHANGED <<_cache, put_log>>

MemPut ==
    /\ \E k \in MemKeys, v \in MemValues : put(k, v)
    /\ read' = NoRead
    /\ UNCHANGED <<keyVars, collVars, semVars, agentVars, extVars>>
MemGet ==
    /\ \E k \in MemKeys : get(k)
    /\ read' = NoRead
    /\ UNCHANGED <<keyVars, collVars, semVars, agentVars, extVars>>

\* AgentExecutor._get_messages: the cached list, or [] when get raises KeyError.
_get_messages ==
    /\ get("messages")
    /\ read' = IF got'.outcome = "KeyError" THEN "[]" ELSE Unpickle(got'.v)

MemGetMessages ==
    /\ _get_messages
    /\ UNCHANGED <<keyVars, collVars, semVars, agentVars, extVars>>

\* The indices of the puts to key k in a log.
PutsTo(log, k) == {i \in 1..Len(log) : log[i].k = k}
Max(S) == CHOOSE m \in S : \A x \in S : x <= m
Min(S) == CHOOSE m \in S : \A x \in S : m <= x
LastPut(log, k) == log[Max(PutsTo(log, k))].v

-----------------------------------------------------------------------------
(* DuckDBCollection: the sources, commit, and the schema inspection cache.  *)

NumCallers == 2        \* asyncio tasks calling ainspect_schema
MaxSources == 1        \* sources added to one collection
MaxInspections == 2    \* runs of the underlying inspector between two resets

SyncCaller == 0        \* the caller of the synchronous inspect_schema
AsyncCallers == 1..NumCallers

\* The requests made on the collection; the last two are one logical request.
CollRequests == { [sd |-> 1, opt |-> 1], [sd |-> 3, opt |-> 1], [sd |-> 4, opt |-> 1] }
\* cache_key = get_inspection_cache_key(semantic_dict, options), per request
CacheKeyOf == [r \in CollRequests |-> KeyOf(r)]
CollKeys == {CacheKeyOf[r] : r \in CollRequests}

DatabaseSchema(key, n) == [for_key |-> key, n_sources |-> n]
NoSchema == [for_key |-> NoKey, n_sources |-> 0]
NoCall == [pc |-> "idle", key |-> NoKey, snap |-> 0]
NoRet == [caller |-> SyncCaller, kind |-> "none", key |-> NoKey, schema |-> NoSchema,
          had_entry |-> FALSE, ran |-> FALSE]

CollInitState ==
    /\ _sources = <<>>
    /\ _data_changed = FALSE
    /\ registered = 0
    /\ _schema_inspection_cache = <<>>
    /\ call = [t \in AsyncCallers |-> NoCall]
    /\ ret = NoRet
    /\ inspect_runs = [k \in CollKeys |-> 0]
    /\ stored_ok = {}
    /\ overlapped = FALSE

RECURSIVE SumOver(_, _)
SumOver(f, S) ==
    IF S = {} THEN 0
    ELSE LET k == CHOOSE x \in S : TRUE IN f[k] + SumOver(f, S \ {k})

TotalRuns == SumOver(inspect_runs, CollKeys)

\* The lookup never finds an entry.
CacheNeverHas(cache, key) == FALSE

\* cache_key in self._schema_inspection_cache
CacheHas(cache, key) == key \in DOMAIN cache

\* self._schema_inspection_cache[cache_key] = schema
CacheStore(cache, key, schema) == (key :> schema) @@ cache

Awaiting(t) == call[t].pc \in {"awaiting", "awaiting_had_entry"}
AnyInFlight == \E t \in AsyncCallers : Awaiting(t)

\* What a call returned (or raised), with whether the cache held its key when
\* the call started and whether the call ran the underlying inspector.
Returned(t, kind, key, schema, had_entry, ran) ==
    [caller |-> t, kind |-> kind, key |-> key, schema |-> schema,
     had_entry |-> had_entry, ran |-> ran]

\* ainspect_schema up to its return on a hit.
ainspect_schema_hit(t, r) ==
    LET cache_key == CacheKeyOf[r] IN
    /\ call[t].pc = "idle"
    /\ CacheHas(_schema_inspection_cache, cache_key)
    /\ ret' = Returned(t, "hit", cache_key, _schema_inspection_cache[cache_key], TRUE, FALSE)
    /\ overlapped' = (overlapped \/ AnyInFlight)
    /\ UNCHANGED <<_sources, _data_changed, registered, _schema_inspection_cache,
                   call, inspect_runs, stored_ok>>

\* ainspect_schema up to its await of the underlying inspection on a miss.
\* The inspector reads the raw schema of the engine before it first suspends.
ainspect_schema_miss(t, r) ==
    LET cache_key == CacheKeyOf[r] IN
    /\ call[t].pc = "idle"
    /\ ~CacheHas(_schema_inspection_cache, cache_key)
    /\ TotalRuns < MaxInspections
    /\ call' = [call EXCEPT ![t] =
                  [pc |-> IF cache_key \in DOMAIN _schema_inspection_cache
                          THEN "awaiting_had_entry" ELSE "awaiting",
                   key |-> cache_key, snap |-> registered]]
    /\ inspect_runs' = [inspect_runs EXCEPT ![cache_key] = @ + 1]
    /\ overlapped' = (overlapped \/ AnyInFlight)
    /\ UNCHANGED <<_sources, _data_changed, registered, _schema_inspection_cache,
                   ret, stored_ok>>

\* The awaited inspection returns: the schema is stored and returned.
ainspect_schema_store(t) ==
    LET schema == DatabaseSchema(call[t].key, call[t].snap) IN
    /\ Awaiting(t)
    /\ _schema_inspection_cache' = CacheStore(_schema_inspection_cache, call[t].key, schema)
    /\ ret' = Returned(t, "fresh", call[t].key, schema, call[t].pc = "awaiting_had_entry", TRUE)
    /\ call' = [call EXCEPT ![t] = NoCall]
    /\ stored_ok' = stored_ok \cup {call[t].key}
    /\ UNCHANGED <<_sources, _data_changed, registered, inspect_runs, overlapped>>

\* The awaited inspection raises, and the failure is stored under the key.
ainspect_schema_raise_storing(t) ==
    /\ Awaiting(t)
    /\ _schema_inspection_cache' = CacheStore(_schema_inspection_cache, call[t].key, NoSchema)
    /\ ret' = Returned(t, "raised", call[t].key, NoSchema, call[t].pc = "awaiting_had_entry", TRUE)
    /\ call' = [call EXCEPT ![t] = NoCall]
    /\ UNCHANGED <<_sources, _data_changed, registered, inspect_runs, stored_ok, overlapped>>

\* The awaited inspection raises: the error propagates, nothing is stored.
ainspect_schema_raise(t) ==
    /\ Awaiting(t)
    /\ ret' = Returned(t, "raised", call[t].key, NoSchema, call[t].pc = "awaiting_had_entry", TRUE)
    /\ call' = [call EXCEPT ![t] = NoCall]
    /\ UNCHANGED <<_sources, _data_changed, registered, _schema_inspection_cache,
                   inspect_runs, stored_ok, overlapped>>

\* The synchronous inspect_schema: a hit returns the stored schema; on a miss
\* it calls SqlAlchemyDataSource.inspect_schema, which raises
\* NotImplementedError before it touches the backend, so nothing is stored.
inspect_schema(r) ==
    LET cache_key == CacheKeyOf[r]
        had_entry == cache_key \in DOMAIN _schema_inspection_cache
    IN
    /\ overlapped' = (overlapped \/ AnyInFlight)
    /\ IF CacheHas(_schema_inspection_cache, cache_key)
       THEN ret' = Returned(SyncCaller, "hit", cache_key,
                            _schema_inspection_cache[cache_key], TRUE, FALSE)
       ELSE ret' = Returned(SyncCaller, "raised", cache_key, NoSchema, had_entry, FALSE)
    /\ UNCHANGED <<_schema_inspection_cache, inspect_runs, stored_ok>>

\* f"{prefix}{len(self._sources) + 1}"
DefaultName(prefix) ==
    prefix \o (CASE Len(_sources) = 0 -> "1" [] Len(_sources) = 1 -> "2"
                 [] Len(_sources) = 2 -> "3" [] OTHER -> "4")

\* add_df / add_db: name is "" for None.
add_source(prefix, name) ==
    /\ Len(_sources) < MaxSources
    /\ _sources' = Append(_sources, IF name = "" THEN DefaultName(prefix) ELSE name)
    /\ _data_changed' = TRUE
    /\ UNCHANGED <<registered, _schema_inspection_cache, call, ret, inspect_runs,
                   stored_ok, overlapped>>

\* commit: a no-op unless a source was added; else a fresh engine with every
\* source registered, and an empty schema cache.
commit ==
    IF ~_data_changed
    THEN UNCHANGED collVars
    ELSE /\ registered' = Len(_sources)
         /\ _schema_inspection_cache' = <<>>
         /\ _data_changed' = FALSE
         /\ inspect_runs' = [k \in CollKeys |-> 0]
         /\ stored_ok' = {}
         /\ overlapped' = AnyInFlight
         /\ UNCHANGED <<_sources, call, ret>>

SourceNames == {""}

CollAInspectHit ==
    /\ \E t \in AsyncCallers, r \in CollRequests : ainspect_schema_hit(t, r)
    /\ UNCHANGED <<keyVars, memVars, semVars, agentVars, extVars>>
CollAInspectMiss ==
    /\ \E t \in AsyncCallers, r \in CollRequests : ainspect_schema_miss(t, r)
    /\ UNCHANGED <<keyVars, memVars, semVars, agentVars, extVars>>
CollAInspectStore ==
    /\ \E t \in AsyncCallers : ainspect_schema_store(t)
    /\ UNCHANGED <<keyVars, memVars, semVars, agentVars, extVars>>
CollAInspectRaise ==
    /\ \E t \in AsyncCallers : ainspect_schema_raise(t)
    /\ UNCHANGED <<keyVars, memVars, semVars, agentVars, extVars>>
CollInspect ==
    /\ \E r \in CollRequests : inspect_schema(r)
    /\ UNCHANGED <<_sources, _data_changed, registered, call>>
    /\ UNCHANGED <<keyVars, memVars, semVars, agentVars, extVars>>
CollAddDf ==
    /\ \E name \in SourceNames : add_source("df_", name)
    /\ UNCHANGED <<keyVars, memVars, semVars, agentVars, extVars>>
CollAddDb ==
    /\ \E name \in SourceNames : add_source("db_", name)
    /\ UNCHANGED <<keyVars, memVars, semVars, agentVars, extVars>>
CollCommit ==
    /\ _data_changed
    /\ commit
    /\ UNCHANGED <<keyVars, memVars, semVars, agentVars, extVars>>

-----------------------------------------------------------------------------
(* SqlAlchemyDataSource: the operations that open a backend connection and  *)
(* the instance-level semaphore.                                            *)

max_concurrent_requests == 2   \* config.max_concurrent_requests of the modelled source
NumColumnTasks == 3            \* process_column tasks of the inspections in flight
NumTables == 2                 \* tables those columns belong to

ColumnTasks == {<<"column", i>> : i \in 1..NumColumnTasks}
AExecutes == {<<"aexecute", 1>>, <<"aexecute", 2>>}
Executes == {<<"execute", 1>>}
AsyncOps == ColumnTasks \cup AExecutes
Ops == AsyncOps \cup Executes

\* The table a column task profiles (0: the operation is no column task).
TableOf(o) == IF o \in ColumnTasks THEN (o[2] % NumTables) + 1 ELSE 0

SemInitState ==
    /\ _semaphore = max_concurrent_requests
    /\ op_pc = [o \in Ops |-> "idle"]

Holding(S) == {o \in S : op_pc[o] = "holding"}

\* A limit per table: a permit is free while fewer than the maximum of the
\* operations on the same table hold one.
PermitFreePerTable(o) ==
    Cardinality({h \in Holding(AsyncOps) : TableOf(h) = TableOf(o)}) < max_concurrent_requests

\* asyncio.Semaphore: a permit is free while the value is positive.
PermitFree(o) == _semaphore > 0

\* A column task or an aexecute reaches `async with self._semaphore`.
SemEnter ==
    /\ \E o \in AsyncOps :
          /\ op_pc[o] = "idle"
          /\ op_pc' = [op_pc EXCEPT ![o] = "waiting"]
    /\ UNCHANGED <<_semaphore, keyVars, memVars, collVars, agentVars, extVars>>

\* It acquires a permit and opens its connection (asyncio.to_thread of
\* _inspect_column_values_helper, or execute_sql_query).
SemAcquire ==
    /\ \E o \in AsyncOps :
          /\ op_pc[o] = "waiting"
          /\ PermitFree(o)
          /\ _semaphore' = _semaphore - 1
          /\ op_pc' = [op_pc EXCEPT ![o] = "holding"]
    /\ UNCHANGED <<keyVars, memVars, collVars, agentVars, extVars>>

\* Its query is over: the connection is closed and the permit released.
SemRelease ==
    /\ \E o \in AsyncOps :
          /\ op_pc[o] = "holding"
          /\ _semaphore' = _semaphore + 1
          /\ op_pc' = [op_pc EXCEPT ![o] = "idle"]
    /\ UNCHANGED <<keyVars, memVars, collVars, agentVars, extVars>>

\* The synchronous execute opens a connection without the semaphore.
SyncExecuteBegin ==
    /\ \E o \in Executes :
          /\ op_pc[o] = "idle"
          /\ op_pc' = [op_pc EXCEPT ![o] = "holding"]
    /\ UNCHANGED <<_semaphore, keyVars, memVars, collVars, agentVars, extVars>>

SyncExecuteEnd ==
    /\ \E o \in Executes :
          /\ op_pc[o] = "holding"
          /\ op_pc' = [op_pc EXCEPT ![o] = "idle"]
    /\ UNCHANGED <<_semaphore, keyVars, memVars, collVars, agentVars, extVars>>

-----------------------------------------------------------------------------
(* LighthouseAgent.execute and the run of its compiled graph.               *)

RecursionLimit == 50   \* RunnableConfig(recursion_limit=50)
MaxVaried == 1         \* tool calls of one run that do not return the default table

None == "None"
Message(type, content) == [type |-> type, content |-> content]
SystemMessage(content) == Message("system", content)

\* The conversations execute is called with.
InputConversations ==
    { <<>>,
      << Message("human", "q1") >>,
      << Message("system", "custom prompt"), Message("human", "q1") >>,
      << Message("human", "q1"), Message("ai", "a1"), Message("human", "q2") >>,
      << Message("human", "q1"), Message("system", "custom prompt") >>,
      << Message("system", "custom prompt") >> }

\* The request of execute: inspect_schema("full", InspectionOptions()).
FullRequest == [sd |-> 1, opt |-> 1]

NoState == [messages |-> <<>>, df |-> None, sql |-> None]
NoResult == [text |-> "", df |-> None, meta |-> None, sql |-> None, messages |-> <<>>]

AgentInitState ==
    /\ pc = "idle"
    /\ in_messages = <<>>
    /\ messages = <<>>
    /\ db_schema = NoSchema
    /\ last_state = NoState
    /\ node = "none"
    /\ steps = 0
    /\ result = NoResult
    /\ exception = ""
    /\ raised_in = "none"
    /\ tool_log = <<>>
    /\ n_varied = 0

\* self._prompt_template.render(date=..., db_schema=summarize_schema(db_schema, ...))
render_system_prompt(schema) ==
    "schema of " \o (CASE schema.n_sources = 0 -> "0" [] schema.n_sources = 1 -> "1"
                       [] OTHER -> "n") \o " sources"

\* The system prompt is prepended whatever leads the conversation.
AlwaysPrepend(msgs) == TRUE

\* messages[0].type != "system"
NeedsSystemPrompt(msgs) == msgs[1].type # "system"

\* The failure is returned as a result, not raised.
ReturnFailure(step, e) ==
    /\ pc' = "returned"
    /\ exception' = e
    /\ raised_in' = step
    /\ result' = [text |-> e, df |-> None, meta |-> "{}", sql |-> "", messages |-> <<>>]

\* An exception outside the try block leaves execute.
Raise(step, e) ==
    /\ pc' = "raised"
    /\ exception' = e
    /\ raised_in' = step
    /\ result' = NoResult

\* The exception leaves execute instead of being caught.
Propagate(e) == Raise("stream", e)

\* except Exception as e: return ExecutionResult(text=str(e), df=None, meta={}, sql="", messages=[])
Catch(e) ==
    /\ pc' = "returned"
    /\ exception' = e
    /\ raised_in' = "stream"
    /\ result' = [text |-> e, df |-> None, meta |-> "{}", sql |-> "", messages |-> <<>>]

AgentRunning == pc \notin {"idle", "returned", "raised"}
AgentTask == CHOOSE t \in AsyncCallers : TRUE

\* The application awaits ainspect_schema("full", InspectionOptions()) between
\* two calls of execute, which is synchronous and lets no task step meanwhile.
AInspectFullBegin ==
    /\ ~AgentRunning
    /\ ainspect_schema_miss(AgentTask, FullRequest)
    /\ UNCHANGED <<keyVars, memVars, semVars, agentVars, extVars>>

AInspectFullEnd ==
    /\ ~AgentRunning
    /\ ainspect_schema_store(AgentTask)
    /\ UNCHANGED <<keyVars, memVars, semVars, agentVars, extVars>>

\* execute is called.
AgentExecute ==
    /\ pc \in {"idle", "returned", "raised"}
    /\ \E conv \in InputConversations :
          /\ in_messages' = conv
          /\ messages' = conv
    /\ pc' = "inspect_schema"
    /\ db_schema' = NoSchema
    /\ last_state' = NoState
    /\ node' = "none"
    /\ steps' = 0
    /\ result' = NoResult
    /\ exception' = ""
    /\ raised_in' = "none"
    /\ tool_log' = <<>>
    /\ n_varied' = 0
    /\ UNCHANGED <<keyVars, memVars, collVars, semVars, extVars>>

\* db_schema = self._data_collection.inspect_schema("full", InspectionOptions())
AgentInspectSchema ==
    /\ pc = "inspect_schema"
    /\ inspect_schema(FullRequest)
    /\ IF ret'.kind = "raised"
       THEN /\ Raise("inspect_schema", "NotImplementedError")
            /\ UNCHANGED db_schema
       ELSE /\ db_schema' = ret'.schema
            /\ pc' = "system_prompt"
            /\ UNCHANGED <<result, exception, raised_in>>
    /\ UNCHANGED <<_sources, _data_changed, registered, call>>
    /\ UNCHANGED <<in_messages, messages, last_state, node, steps, tool_log, n_varied>>
    /\ UNCHANGED <<keyVars, memVars, semVars, extVars>>

\* if messages[0].type != "system": messages = [SystemMessage(...), *messages]
AgentSystemPrompt ==
    /\ pc = "system_prompt"
    /\ IF messages = <<>>
       THEN /\ Raise("messages[0]", "IndexError")
            /\ UNCHANGED messages
       ELSE IF NeedsSystemPrompt(messages)
       THEN \E outcome \in {"ok", "raise"} :
               IF outcome = "ok"
               THEN /\ messages' = <<SystemMessage(render_system_prompt(db_schema))>> \o messages
                    /\ pc' = "init_state"
                    /\ UNCHANGED <<result, exception, raised_in>>
               ELSE /\ Raise("render_system_prompt", "TemplateError")
                    /\ UNCHANGED messages
       ELSE /\ pc' = "init_state"
            /\ UNCHANGED <<messages, result, exception, raised_in>>
    /\ UNCHANGED <<in_messages, db_schema, last_state, node, steps, tool_log, n_varied>>
    /\ UNCHANGED <<keyVars, memVars, collVars, semVars, extVars>>

\* Graph.init_state(messages): the state the run starts from.
init_state(msgs) == [messages |-> msgs, df |-> None, sql |-> None]

\* init_state = self._graph.init_state(messages); the stream yields it first.
AgentStreamStart ==
    /\ pc = "init_state"
    /\ \E outcome \in {"ok", "raise"} :
          IF outcome = "ok"
          THEN /\ last_state' = init_state(messages)
               /\ node' = "reasoning"
               /\ pc' = "stream"
               /\ UNCHANGED <<result, exception, raised_in>>
          ELSE /\ Raise("init_state", "StateError")
               /\ UNCHANGED <<last_state, node>>
    /\ UNCHANGED <<in_messages, messages, db_schema, steps, tool_log, n_varied>>
    /\ UNCHANGED <<keyVars, memVars, collVars, semVars, extVars>>

\* The run never runs out of steps.
NoRecursionLimit(n) == TRUE

\* RunnableConfig(..., recursion_limit=50): the run may take another step.
WithinRecursionLimit(n) == n < RecursionLimit

AppendMessage(state, m) == [state EXCEPT !.messages = Append(@, m)]

\* The reasoning node: the oracle answers, asks for a tool call, or fails.
GraphReasoning ==
    /\ pc = "stream" /\ node = "reasoning" /\ WithinRecursionLimit(steps)
    /\ \E outcome \in {"tool_call", "final", "raise"} :
          IF outcome = "raise"
          THEN /\ Catch("OracleError")
               /\ UNCHANGED <<last_state, node, steps>>
          ELSE /\ last_state' = AppendMessage(last_state, Message("ai", outcome))
               /\ node' = IF outcome = "final" THEN "end" ELSE "tool"
               /\ steps' = steps + 1
               /\ UNCHANGED <<pc, result, exception, raised_in>>
    /\ UNCHANGED <<in_messages, messages, db_schema, tool_log, n_varied>>
    /\ UNCHANGED <<keyVars, memVars, collVars, semVars, extVars>>

DefaultTable == "T1"
BackendOutcomes == {"T1", "T2", "query_failure", "setup_failure"}

\* A query failure is raised like a setup failure.
ExecuteRaisesQueryFailure(b) ==
    IF b \in {"query_failure", "setup_failure"} THEN [raised |-> TRUE, value |-> "ExecutionError"]
    ELSE [raised |-> FALSE, value |-> b]

\* DataSource.execute(query) -> pd.DataFrame | Exception: a table or a query
\* failure is returned as a value; only a setup failure is raised.
SourceExecute(b) ==
    IF b = "setup_failure" THEN [raised |-> TRUE, value |-> "SetupError"]
    ELSE IF b = "query_failure" THEN [raised |-> FALSE, value |-> "ExecutionError"]
    ELSE [raised |-> FALSE, value |-> b]

\* The tool node: the state after the tool result r is appended.
ToolResult(state, r) ==
    IF r = "ExecutionError"
    THEN AppendMessage(state, Message("tool", r))
    ELSE [AppendMessage(state, Message("tool", r)) EXCEPT !.df = r, !.sql = "query for " \o r]

\* The tool node: the requested query is executed and its result appended.
GraphTool ==
    /\ pc = "stream" /\ node = "tool" /\ WithinRecursionLimit(steps)
    /\ \E b \in BackendOutcomes :
          /\ b \in {"T2", "query_failure"} => n_varied < MaxVaried
          /\ n_varied' = IF b \in {"T2", "query_failure"} THEN n_varied + 1 ELSE n_varied
          /\ tool_log' = Append(tool_log, b)
          /\ LET r == SourceExecute(b) IN
             IF r.raised
             THEN /\ Catch(r.value)
                  /\ UNCHANGED <<last_state, node, steps>>
             ELSE /\ last_state' = ToolResult(last_state, r.value)
                  /\ node' = "reasoning"
                  /\ steps' = steps + 1
                  /\ UNCHANGED <<pc, result, exception, raised_in>>
    /\ UNCHANGED <<in_messages, messages, db_schema>>
    /\ UNCHANGED <<keyVars, memVars, collVars, semVars, extVars>>

\* The run is out of steps: the stream raises GraphRecursionError.
GraphRecursionLimit ==
    /\ pc = "stream" /\ node \in {"reasoning", "tool"} /\ ~WithinRecursionLimit(steps)
    /\ Catch("GraphRecursionError")
    /\ UNCHANGED <<in_messages, messages, db_schema, last_state, node, steps, tool_log, n_varied>>
    /\ UNCHANGED <<keyVars, memVars, collVars, semVars, extVars>>

LastOf(seq) == seq[Len(seq)]

\* Graph.get_result(last_state): the final answer, the last fetched table and
\* its query, and the transcript.
get_result(state) ==
    [ text |-> LastOf(state.messages).content, df |-> state.df, meta |-> "meta",
      sql |-> state.sql, messages |-> state.messages ]

\* return self._graph.get_result(last_state)
AgentGetResult ==
    /\ pc = "stream" /\ node = "end"
    /\ result' = get_result(last_state)
    /\ pc' = "returned"
    /\ UNCHANGED <<in_messages, messages, db_schema, last_state, node, steps, exception,
                   raised_in, tool_log, n_varied>>
    /\ UNCHANGED <<keyVars, memVars, collVars, semVars, extVars>>

-----------------------------------------------------------------------------
(* SqlAlchemyDataSource.ainspect_schema: which tables and columns the       *)
(* returned DatabaseSchema holds.  The semantic dict is the Python dict of  *)
(* the caller, in the representation of the JSON values above.              *)

DictHas(d, k) == \E i \in 1..Len(d.v) : d.v[i].k = k
DictGet(d, k) == d.v[CHOOSE i \in 1..Len(d.v) : d.v[i].k = k].val
\* d[k] = val: an existing key keeps its place, a new key goes last.
DictSet(d, k, val) ==
    IF DictHas(d, k)
    THEN Dict([i \in 1..Len(d.v) |-> IF d.v[i].k = k THEN KV(k, val) ELSE d.v[i]])
    ELSE Dict(Append(d.v, KV(k, val)))
DictKeys(d) == [i \in 1..Len(d.v) |-> d.v[i].k]

IsStr(x, tok) == x.t = "scalar" /\ x.v[1] = tok
ImplicitAll == Scalar("\"__all__\"")
EmptyStr == Scalar("\"\"")
SeqHas(seq, x) == \E i \in 1..Len(seq) : seq[i] = x

\* raw_schema = inspect_database_schema(self.engine): the physical tables
\* with their columns, in the order of the backend.
RawTable(name, columns) == [name |-> name, columns |-> columns]
RawSchemas ==
    << << RawTable("t1", <<"a", "b">>), RawTable("t2", <<"a", "c">>) >>,
       << RawTable("t1", <<"a", "b">>) >> >>
RawNames(raw) == [i \in 1..Len(raw) |-> raw[i].name]
RawColumns(raw, t) == raw[CHOOSE i \in 1..Len(raw) : raw[i].name = t].columns

\* A regular expression, given by the names it fully matches; None for unset.
NoRegex == [pattern |-> "None", matches |-> {}]
TableRegexes == { NoRegex, [pattern |-> "t.*", matches |-> {"t1", "t2"}],
                  [pattern |-> "t2", matches |-> {"t2"}] }
ColumnRegexes == { NoRegex, [pattern |-> ".*", matches |-> {"a", "b", "c"}],
                   [pattern |-> "b", matches |-> {"b"}] }

\* The columns whose profiling fails, as table.column; at most one.
NoColumn == ""
FailingColumns == {NoColumn, "t1.a", "t2.c"}

InspArgs == [sd : 1..Len(SemanticDicts), raw : 1..Len(RawSchemas),
             tables_regex : TableRegexes, columns_regex : ColumnRegexes,
             fails : FailingColumns]

\* if semantic_dict == "full": every raw table is selected as "all".
ExpandFull(sd, raw) ==
    IF IsStr(sd, "\"full\"")
    THEN Tables([i \in 1..Len(raw) |-> KV(raw[i].name, All)])
    ELSE sd

\* The tables_regex loop over raw_schema.tables[1..n] on the dict of tables.
RECURSIVE TablesRegexLoop(_, _, _, _)
TablesRegexLoop(tables, raw, rx, n) ==
    IF n = 0 THEN tables
    ELSE LET before == TablesRegexLoop(tables, raw, rx, n - 1)
             table_name == raw[n].name
         IN  IF DictHas(before, table_name) THEN before
             ELSE IF table_name \in rx.matches THEN DictSet(before, table_name, ImplicitAll)
             ELSE before

\* The matching tables are added whether or not the dict names them.
TablesRegexOverrides(tables, raw, rx) ==
    LET RECURSIVE Loop(_)
        Loop(n) == IF n = 0 THEN tables
                   ELSE IF raw[n].name \in rx.matches
                        THEN DictSet(Loop(n - 1), raw[n].name, ImplicitAll)
                        ELSE Loop(n - 1)
    IN  Loop(Len(raw))

\* semantic_tables after lines 163-175
SemanticTables(tables, raw, rx) ==
    IF rx = NoRegex THEN tables ELSE TablesRegexLoop(tables, raw, rx, Len(raw))

\* The columns_regex loop over raw_table.columns[1..n] on the dict of the
\* columns of one table; implicit: the table was added by tables_regex.
RECURSIVE ColumnsRegexLoop(_, _, _, _, _)
ColumnsRegexLoop(columns, raw_columns, rx, implicit, n) ==
    IF n = 0 THEN columns
    ELSE LET before == ColumnsRegexLoop(columns, raw_columns, rx, implicit, n - 1)
             col_name == raw_columns[n]
         IN  IF ~implicit /\ DictHas(before, col_name) THEN before
             ELSE IF col_name \in rx.matches THEN DictSet(before, col_name, EmptyStr)
             ELSE before

\* The regex keeps only the matching columns, whatever selected them.
ColumnsRegexFilters(sel, columns, raw_columns, rx) ==
    IF rx = NoRegex THEN columns
    ELSE Dict(SelectSeq(columns.v, LAMBDA kv : kv.k \in rx.matches))

\* semantic_table["columns"] after lines 218-225; sel is the entry of the table.
SelectedColumns(sel, columns, raw_columns, rx) ==
    IF ~IsStr(sel, "\"all\"") /\ rx # NoRegex
    THEN ColumnsRegexLoop(columns, raw_columns, rx, IsStr(sel, "\"__all__\""),
                          Len(raw_columns))
    ELSE columns

ColumnSchema(name, description) == [name |-> name, description |-> description]
TableSchema(name, description, columns) ==
    [name |-> name, description |-> description, columns |-> columns]
NoTable == TableSchema("", "", <<>>)
TaskResult(exc_type, msg, table) == [exc_type |-> exc_type, msg |-> msg, table |-> table]

\* list(raw_table.columns.keys()) as Python prints it
ListRepr(names) ==
    "[" \o Concat([i \in 1..Len(names) |->
                     (IF i > 1 THEN ", " ELSE "") \o "'" \o names[i] \o "'"]) \o "]"

\* The failing column is left out of the table.
ColumnGatherOmitting(table_name, description, columns, fails) ==
    TaskResult("", "",
        TableSchema(table_name, description,
            SelectSeq([i \in 1..Len(columns.v) |->
                          ColumnSchema(columns.v[i].k, columns.v[i].val.v[1])],
                      LAMBDA c : table_name \o "." \o c.name # fails)))

\* await asyncio.gather(*column_tasks): the columns in the order of the dict,
\* or the failure of the column whose profiling fails.
ColumnGather(table_name, description, columns, fails) ==
    IF \E i \in 1..Len(columns.v) : table_name \o "." \o columns.v[i].k = fails
    THEN TaskResult("ProfilingError", fails, NoTable)
    ELSE TaskResult("", "",
            TableSchema(table_name, description,
                [i \in 1..Len(columns.v) |->
                    ColumnSchema(columns.v[i].k, columns.v[i].val.v[1])]))

\* process_table(table_name)
process_table(table_name, semantic_tables, raw, rx, fails) ==
    IF ~SeqHas(RawNames(raw), table_name)
    THEN TaskResult("ValueError", "Table " \o table_name \o " doesn't exist.", NoTable)
    ELSE
    LET raw_columns == RawColumns(raw, table_name)
        sel == DictGet(semantic_tables, table_name)
        semantic_table ==
            IF IsStr(sel, "\"all\"") \/ IsStr(sel, "\"__all__\"")
            THEN TableSel("\"\"", [i \in 1..Len(raw_columns) |-> KV(raw_columns[i], EmptyStr)])
            ELSE sel
        columns == SelectedColumns(sel, DictGet(semantic_table, "columns"), raw_columns, rx)
        table_desc == IF DictHas(semantic_table, "description")
                      THEN DictGet(semantic_table, "description").v[1] ELSE "\"\""
        unknown == {i \in 1..Len(columns.v) : ~SeqHas(raw_columns, columns.v[i].k)}
    IN  IF unknown # {}
        THEN TaskResult("ValueError",
                 "Column " \o table_name \o "." \o columns.v[Min(unknown)].k
                 \o " doesn't exist. Available columns: " \o ListRepr(raw_columns), NoTable)
        ELSE ColumnGather(table_name, table_desc, columns, fails)

InspOut(kind, exc_type, msg, tables) ==
    [kind |-> kind, exc_type |-> exc_type, msg |-> msg, tables |-> tables]
NoInspOut == InspOut("none", "", "", <<>>)

\* The tables whose task raised are left out of the schema.
GatherSkipping(results) ==
    InspOut("schema", "", "",
        LET ok == SelectSeq(results, LAMBDA r : r.exc_type = "")
        IN  [i \in 1..Len(ok) |-> ok[i].table])

\* await tqdm.gather(*table_tasks): the first exception raised propagates.  A
\* table task raises its ValueError before it first suspends, so before any
\* column profiling can fail.
Gather(results) ==
    LET value_errors == {i \in 1..Len(results) : results[i].exc_type = "ValueError"}
        failures == {i \in 1..Len(results) : results[i].exc_type # ""}
    IN  IF value_errors # {}
        THEN InspOut("raised", "ValueError", results[Min(value_errors)].msg, <<>>)
        ELSE IF failures # {}
        THEN InspOut("raised", results[Min(failures)].exc_type,
                     results[Min(failures)].msg, <<>>)
        ELSE InspOut("schema", "", "", [i \in 1..Len(results) |-> results[i].table])

\* SqlAlchemyDataSource.ainspect_schema
sa_ainspect_schema(a) ==
    LET raw == RawSchemas[a.raw]
        semantic_dict == ExpandFull(SemanticDicts[a.sd], raw)
        semantic_tables == SemanticTables(DictGet(semantic_dict, "tables"), raw, a.tables_regex)
        names == DictKeys(semantic_tables)
    IN  Gather([i \in 1..Len(names) |->
                  process_table(names[i], semantic_tables, raw, a.columns_regex, a.fails)])

\* The dict object the caller passed, after the call.  "full" is replaced by
\* a dict of the call's own (163-164); otherwise the tables_regex loop
\* (166-173) writes into semantic_dict["tables"], and the columns_regex loop
\* (218-225) of each table task into semantic_tables[table_name]["columns"]
\* unless the table is selected by "all" or "__all__", for which the task
\* builds a dict of its own (212-213).  A table the raw schema lacks raises
\* before its loop (208-209).
SemanticDictAfter(semantic_dict, raw, tables_regex, columns_regex) ==
    IF IsStr(semantic_dict, "\"full\"") THEN semantic_dict
    ELSE LET semantic_tables ==
                 SemanticTables(DictGet(semantic_dict, "tables"), raw, tables_regex)
             After(kv) ==
                 IF kv.val.t = "scalar" \/ ~SeqHas(RawNames(raw), kv.k) THEN kv
                 ELSE KV(kv.k, DictSet(kv.val, "columns",
                                       SelectedColumns(kv.val, DictGet(kv.val, "columns"),
                                                       RawColumns(raw, kv.k), columns_regex)))
         IN  DictSet(semantic_dict, "tables",
                     Dict([i \in 1..Len(semantic_tables.v) |-> After(semantic_tables.v[i])]))

DefaultInspArgs == [sd |-> 1, raw |-> 1, tables_regex |-> NoRegex,
                    columns_regex |-> NoRegex, fails |-> NoColumn]
InspIdle ==
    /\ insp_pc = "args"
    /\ insp_args = DefaultInspArgs
    /\ insp_semantic_dict = SemanticDicts[1]
    /\ insp_out = NoInspOut
InspInit ==
    /\ insp_pc = "args"
    /\ insp_args \in InspArgs
    /\ insp_semantic_dict = SemanticDicts[insp_args.sd]
    /\ insp_out = NoInspOut

InspCall ==
    /\ insp_pc = "args"
    /\ insp_out' = sa_ainspect_schema(insp_args)
    /\ insp_semantic_dict' = SemanticDictAfter(insp_semantic_dict, RawSchemas[insp_args.raw],
                                               insp_args.tables_regex, insp_args.columns_regex)
    /\ insp_pc' = "done"
    /\ UNCHANGED <<insp_args, baseVars, exceptInsp>>

InspNextArgs ==
    /\ insp_pc = "done"
    /\ insp_args' \in InspArgs
    /\ insp_semantic_dict' = SemanticDicts[insp_args'.sd]
    /\ insp_pc' = "args"
    /\ insp_out' = NoInspOut
    /\ UNCHANGED <<baseVars, exceptInsp>>

-----------------------------------------------------------------------------
(* SqlAlchemyDataSource._inspect_column_values: the profiling of one column. *)
(* The predicates of portus.data_source.database_types on the column's name *)
(* and dtype, and the general statistics the backend answers, are inputs.   *)

MaxEnumValues == 2     \* largest options.max_enum_values
MaxUnique == 3         \* largest n_unique the backend reports

ValueSamplingStrategy == {"NONE", "CATEGORICAL_ONLY", "TOP_P"}
UniqueRates == {0, 50, 100}       \* general_stats["unique_rate"], in percent
MaxUniqueRates == {50}            \* options.max_unique_rate, in percent
InspectionOptions ==
    [value_sampling_strategy : ValueSamplingStrategy,
     inspect_column_stats : BOOLEAN,
     max_enum_values : 1..MaxEnumValues,
     max_unique_rate : MaxUniqueRates]
ProfColumns ==
    [is_id_column : BOOLEAN, is_low_cardinality_dtype : BOOLEAN,
     is_string_dtype : BOOLEAN, is_numeric_dtype : BOOLEAN,
     is_datetime_dtype : BOOLEAN, is_array_dtype : BOOLEAN,
     is_aggregate_function : BOOLEAN]
GeneralStats == [n_unique : 0..MaxUnique, unique_rate : UniqueRates]
ProfArgs == [options : InspectionOptions, col : ProfColumns, general_stats : GeneralStats]

Query(name, args) == [q |-> name, args |-> args]
\* ColumnValuesStats: the groups of fields that are set, and the top-k list.
ColumnValuesStats(groups, top_k_values) ==
    [fields |-> groups, top_k_values_with_frequencies |-> top_k_values]
ProfOut(queries, values, stats) == [queries |-> queries, values |-> values, stats |-> stats]
NoProfOut == ProfOut(<<>>, <<>>, ColumnValuesStats({}, "unset"))

\* if options.value_sampling_strategy == NONE and not options.inspect_column_stats
SkipsOnNone(options) == options.value_sampling_strategy = "NONE"
SkipsProfiling(options) ==
    options.value_sampling_strategy = "NONE" /\ ~options.inspect_column_stats

\* (is_low_cardinality_dtype(dtype) or n_unique < max_enum_values) and is_string_dtype(dtype)
CategoricalOfAnyType(options, col, general_stats) ==
    col.is_low_cardinality_dtype \/ general_stats.n_unique < options.max_enum_values
IsCategorical(options, col, general_stats) ==
    /\ col.is_low_cardinality_dtype \/ general_stats.n_unique < options.max_enum_values
    /\ col.is_string_dtype

\* the condition of the TOP_P branch
SamplesWithoutSafetyNet(options, col, general_stats) ==
    /\ ~col.is_id_column
    /\ ~col.is_datetime_dtype
    /\ ~col.is_array_dtype
    /\ ~col.is_aggregate_function
    /\ ~(general_stats.unique_rate > options.max_unique_rate)
SamplesTopK(options, col, general_stats) ==
    \/ /\ ~col.is_id_column
       /\ ~col.is_datetime_dtype
       /\ ~col.is_array_dtype
       /\ ~col.is_aggregate_function
       /\ ~(general_stats.unique_rate > options.max_unique_rate)
    \/ general_stats.n_unique < options.max_enum_values

\* fetch_distinct_values(conn, table, col, limit): the first distinct values
\* of the column, at most limit of them.
fetch_distinct_values(general_stats, limit) ==
    [i \in 1..Min({general_stats.n_unique, limit}) |-> i]
\* format_values_list(values, max_values): at most max_values of them.
format_values_list(values, max_values) ==
    SubSeq(values, 1, Min({Len(values), max_values}))

_inspect_column_values(a) ==
    LET options == a.options
        col == a.col
        general_stats == a.general_stats
        categorical ==
            /\ options.value_sampling_strategy = "CATEGORICAL_ONLY"
            /\ IsCategorical(options, col, general_stats)
        top_p ==
            /\ options.value_sampling_strategy = "TOP_P"
            /\ SamplesTopK(options, col, general_stats)
        numeric == col.is_numeric_dtype /\ ~col.is_id_column /\ options.inspect_column_stats
        string == col.is_string_dtype /\ options.inspect_column_stats
        low_cardinality_values ==
            IF categorical
            THEN format_values_list(
                     fetch_distinct_values(general_stats, options.max_enum_values + 1),
                     options.max_enum_values)
            ELSE <<>>
        queries ==
            <<Query("retrieve_general_stats", <<>>)>>
            \o (IF categorical
                THEN <<Query("fetch_distinct_values", <<options.max_enum_values + 1>>)>>
                ELSE <<>>)
            \o (IF top_p THEN <<Query("retrieve_top_k_values", <<>>)>> ELSE <<>>)
            \o (IF numeric THEN <<Query("retrieve_first_order_numeric_stats", <<>>)>> ELSE <<>>)
            \o (IF string THEN <<Query("retrieve_formal_string_stats", <<>>)>> ELSE <<>>)
        fields ==
            (IF numeric THEN {"numeric_stats"} ELSE {})
            \cup (IF options.inspect_column_stats THEN {"general_stats"} ELSE {})
            \cup (IF string THEN {"string_stats"} ELSE {})
    IN  IF SkipsProfiling(options)
        THEN ProfOut(<<>>, <<>>, ColumnValuesStats({}, None))
        ELSE ProfOut(queries, low_cardinality_values,
                     ColumnValuesStats(fields, IF top_p THEN "top_k_values" ELSE None))

DefaultProfArgs ==
    [options |-> [value_sampling_strategy |-> "NONE", inspect_column_stats |-> FALSE,
                  max_enum_values |-> 1, max_unique_rate |-> 50],
     col |-> [is_id_column |-> FALSE, is_low_cardinality_dtype |-> FALSE,
              is_string_dtype |-> TRUE, is_numeric_dtype |-> FALSE,
              is_datetime_dtype |-> FALSE, is_array_dtype |-> FALSE,
              is_aggregate_function |-> FALSE],
     general_stats |-> [n_unique |-> 0, unique_rate |-> 0]]
ProfIdle ==
    /\ prof_pc = "args"
    /\ prof_args = DefaultProfArgs
    /\ prof_out = NoProfOut
ProfInit ==
    /\ prof_pc = "args"
    /\ prof_args \in ProfArgs
    /\ prof_out = NoProfOut

\* One call of _inspect_column_values.
ProfCall ==
    /\ prof_pc = "args"
    /\ prof_out' = _inspect_column_values(prof_args)
    /\ prof_pc' = "done"
    /\ UNCHANGED <<prof_args, baseVars, exceptProf>>

\* ainspect_schema goes on to the next column under the same options.
ProfNextColumn ==
    /\ prof_pc = "done"
    /\ \E c \in ProfColumns : prof_args' = [prof_args EXCEPT !.col = c]
    /\ prof_pc' = "args"
    /\ prof_out' = NoProfOut
    /\ UNCHANGED <<baseVars, exceptProf>>

-----------------------------------------------------------------------------
(* DataEngine.execute with the query cache. The engine has one source, so a *)
(* cache entry is identified by the query. DiskCache is outside src/; it is *)
(* a map from the query to the stored table (last write wins).              *)

NumExecutes == 2       \* asyncio tasks calling DataEngine.execute
ExecCallers == 1..NumExecutes
SqlQueries == {"q1"}
SqlTables == {"T1", "T2"}
QueryFailure == "QueryFailure"     \* the Exception value src.execute returns

IdleExec == [pc |-> "idle", query |-> "", skip_cache |-> FALSE,
             settled |-> None, enabled |-> FALSE]
NoExecRet == [caller |-> 0, query |-> "", skip_cache |-> FALSE, hit |-> FALSE,
              found |-> None, result |-> None, invoked |-> FALSE,
              settled |-> None, enabled |-> FALSE]

EngInitState ==
    /\ query_cache = None
    /\ sql = [q \in SqlQueries |-> None]
    /\ backend = [q \in SqlQueries |-> "T1"]
    /\ exec_call = [c \in ExecCallers |-> IdleExec]
    /\ exec_ret = NoExecRet
    /\ enable_pc = "idle"
    /\ settled = [q \in SqlQueries |-> None]
    /\ backend_changed = FALSE

\* self.cache.get_sql(query, source_name=name)
get_sql(query) == sql[query]

\* if not skip_cache and self.cache is not None
UsesCacheIfEnabled(skip_cache) == query_cache # None
UsesCache(skip_cache) == ~skip_cache /\ query_cache # None

\* execute up to `return cached`: the lookup found an entry.
ExecuteHit ==
    /\ \E c \in ExecCallers, q \in SqlQueries, skip_cache \in BOOLEAN :
          /\ exec_call[c].pc = "idle"
          /\ UsesCache(skip_cache)
          /\ get_sql(q) # None
          /\ exec_ret' = [caller |-> c, query |-> q, skip_cache |-> skip_cache,
                          hit |-> TRUE, found |-> get_sql(q), result |-> get_sql(q),
                          invoked |-> FALSE, settled |-> settled[q],
                          enabled |-> query_cache # None]
    /\ UNCHANGED <<query_cache, sql, backend, exec_call, enable_pc, settled, backend_changed>>
    /\ UNCHANGED <<baseVars, exceptEng>>

\* execute up to `await src.execute(query)`: no lookup, or no entry.
ExecuteMiss ==
    /\ \E c \in ExecCallers, q \in SqlQueries, skip_cache \in BOOLEAN :
          /\ exec_call[c].pc = "idle"
          /\ ~UsesCache(skip_cache) \/ get_sql(q) = None
          /\ exec_call' = [exec_call EXCEPT ![c] =
                 [pc |-> "awaiting", query |-> q, skip_cache |-> skip_cache,
                  settled |-> settled[q], enabled |-> query_cache # None]]
    /\ UNCHANGED <<query_cache, sql, backend, exec_ret, enable_pc, settled, backend_changed>>
    /\ UNCHANGED <<baseVars, exceptEng>>

\* if isinstance(result, pd.DataFrame)
AnyResult(res) == TRUE
IsDataFrame(res) == res \in SqlTables

\* execute from the return of src.execute: a table is stored when the cache is
\* used and set_sql succeeds; a failure of set_sql is printed and dropped.
ExecuteReturn ==
    /\ \E c \in ExecCallers, set_ok \in BOOLEAN, answer \in {"table", QueryFailure} :
          LET q == exec_call[c].query
              res == IF answer = "table" THEN backend[q] ELSE QueryFailure
              stores == /\ UsesCache(exec_call[c].skip_cache)
                        /\ IsDataFrame(res)
                        /\ set_ok
          IN  /\ exec_call[c].pc = "awaiting"
              /\ sql' = IF stores THEN [sql EXCEPT ![q] = res] ELSE sql
              /\ settled' = IF stores /\ settled[q] = None
                            THEN [settled EXCEPT ![q] = res] ELSE settled
              /\ exec_ret' = [caller |-> c, query |-> q,
                              skip_cache |-> exec_call[c].skip_cache,
                              hit |-> FALSE, found |-> None, result |-> res,
                              invoked |-> TRUE, settled |-> exec_call[c].settled,
                              enabled |-> exec_call[c].enabled]
              /\ exec_call' = [exec_call EXCEPT ![c] = IdleExec]
    /\ UNCHANGED <<query_cache, backend, enable_pc, backend_changed>>
    /\ UNCHANGED <<baseVars, exceptEng>>

\* The data behind the source changes: a query answers another table.
BackendChange ==
    /\ \E q \in SqlQueries, t \in SqlTables :
          /\ t # backend[q]
          /\ backend' = [backend EXCEPT ![q] = t]
    /\ backend_changed' = TRUE
    /\ UNCHANGED <<query_cache, sql, exec_call, exec_ret, enable_pc, settled>>
    /\ UNCHANGED <<baseVars, exceptEng>>

\* enable_and_validate_query_cache(cache_config) without a staleness query.
EnableQueryCache ==
    /\ enable_pc # "validating"
    /\ query_cache' = "DiskCache"
    /\ enable_pc' = "idle"
    /\ UNCHANGED <<sql, backend, exec_call, exec_ret, settled, backend_changed>>
    /\ UNCHANGED <<baseVars, exceptEng>>

\* enable_and_validate_query_cache up to the await of the staleness query:
\* execute(cache_is_stale_query, skip_cache=True) looks nothing up and awaits
\* src.execute.
EnableAndValidateBegin ==
    /\ enable_pc # "validating"
    /\ ~UsesCache(TRUE)
    /\ query_cache' = "DiskCache"
    /\ enable_pc' = "validating"
    /\ UNCHANGED <<sql, backend, exec_call, exec_ret, settled, backend_changed>>
    /\ UNCHANGED <<baseVars, exceptEng>>

\* if isinstance(current_df, Exception): raise current_df; else
\* invalidate_source_if_stale_query drops the source's entries of a stale cache
InvalidatesUnlessFresh(outcome) == outcome # "fresh"
InvalidatesOn(outcome) == outcome = "stale"

\* ... and from its return: execute stores nothing under skip_cache; the
\* query failed and the failure is raised, or the cache is fresh, or it is
\* stale and the source's entries are dropped.
EnableAndValidateEnd ==
    /\ enable_pc = "validating"
    /\ ~UsesCache(TRUE)
    /\ \E outcome \in {"raised", "fresh", "stale"} :
          /\ enable_pc' = IF outcome = "raised" THEN "raised" ELSE "idle"
          /\ IF InvalidatesOn(outcome)
             THEN /\ sql' = [q \in SqlQueries |-> None]
                  /\ settled' = [q \in SqlQueries |-> None]
             ELSE UNCHANGED <<sql, settled>>
    /\ UNCHANGED <<query_cache, backend, exec_call, exec_ret, backend_changed>>
    /\ UNCHANGED <<baseVars, exceptEng>>

-----------------------------------------------------------------------------
(* AgentExecutor._process_new_opas and _update_message_history over the     *)
(* threads of one session. A thread is a Pipe with its own list of opas;    *)
(* the cache scope of a run is the key of its thread.                       *)

MaxOpas == 2           \* questions asked in one thread
MaxHistory == 3        \* messages in a stored history

Threads == {1, 2}      \* Pipes of the session
\* the question asked as the n-th of a thread
OpaQueries == [n \in 1..(MaxOpas + 1) |-> IF n % 2 = 1 THEN "x" ELSE "y"]
\* Opa(query=query); id tells the opas of a thread apart.
Opa(id, query) == [id |-> id, query |-> query]
HumanMessage(content) == Message("human", content)
AIMessage(content) == Message("ai", content)

\* the cache scope under which a thread's runs read and write
cache_scope(thread) == thread

pickle_dump(value) == [pickle |-> value]
pickle_load(buffer) == buffer.pickle

\* session.cache.scoped(cache_scope).get(key, buffer) and pickle.load; the
\* default when get raises KeyError
_get_messages_in(c, scope) ==
    IF "messages" \in DOMAIN c[scope] THEN pickle_load(c[scope]["messages"]) ELSE <<>>
_get_processed_opa_count(c, scope) ==
    IF "processed_opa_count" \in DOMAIN c[scope]
    THEN pickle_load(c[scope]["processed_opa_count"]) ELSE 0
_set_messages(c, scope, msgs) ==
    [c EXCEPT ![scope] = Store(@, "messages", pickle_dump(msgs))]
_set_processed_opa_count(c, scope, count) ==
    [c EXCEPT ![scope] = Store(@, "processed_opa_count", pickle_dump(count))]

\* new_opas = opas[processed_opa_count:]
AllOpas(opas, processed_opa_count) == opas
new_opas(opas, processed_opa_count) == SubSeq(opas, processed_opa_count + 1, Len(opas))

\* _process_new_opas(session, opas, cache_scope): the returned pair and the cache after
_process_new_opas(c, opas, scope) ==
    LET msgs == _get_messages_in(c, scope)
        processed_opa_count == _get_processed_opa_count(c, scope)
        new == new_opas(opas, processed_opa_count)
        new_messages == [i \in 1..Len(new) |-> HumanMessage(new[i].query)]
    IN  IF new # <<>>
        THEN [messages |-> msgs \o new_messages,
              processed_opa_count |-> Len(opas),
              new_opas |-> new,
              cache |-> _set_processed_opa_count(c, scope, Len(opas))]
        ELSE [messages |-> msgs,
              processed_opa_count |-> processed_opa_count,
              new_opas |-> new,
              cache |-> c]

NoProcRet == [thread |-> 0, opas |-> <<>>, stored_messages |-> <<>>, stored_count |-> 0,
              messages |-> <<>>, processed_opa_count |-> 0, count_after |-> 0]

ThrInitState ==
    /\ thr_opas = [p \in Threads |-> <<>>]
    /\ session_cache = [p \in Threads |-> <<>>]
    /\ thr_pc = [p \in Threads |-> "idle"]
    /\ thr_messages = [p \in Threads |-> <<>>]
    /\ proc_ret = NoProcRet
    /\ converted = [p \in Threads |-> [i \in 1..MaxOpas |-> 0]]

\* Pipe.ask(query): self.__opas.append(Opa(query=query))
ThreadAsk ==
    /\ \E p \in Threads :
          /\ Len(thr_opas[p]) < MaxOpas
          /\ thr_opas' = [thr_opas EXCEPT ![p] =
                 Append(@, Opa(Len(@) + 1, OpaQueries[Len(@) + 1]))]
    /\ UNCHANGED <<session_cache, thr_pc, thr_messages, proc_ret, converted>>
    /\ UNCHANGED <<baseVars, exceptThr>>

\* A run of the thread starts: _process_new_opas on the thread's opas.
ProcessNewOpas ==
    /\ \E p \in Threads :
          LET scope == cache_scope(p)
              r == _process_new_opas(session_cache, thr_opas[p], scope)
          IN  /\ thr_pc[p] = "idle"
              /\ session_cache' = r.cache
              /\ thr_messages' = [thr_messages EXCEPT ![p] = r.messages]
              /\ thr_pc' = [thr_pc EXCEPT ![p] = "graph"]
              /\ converted' = [converted EXCEPT ![p] =
                     [i \in 1..MaxOpas |->
                        @[i] + Cardinality({j \in 1..Len(r.new_opas) : r.new_opas[j].id = i})]]
              /\ proc_ret' =
                     [thread |-> p, opas |-> thr_opas[p],
                      stored_messages |-> _get_messages_in(session_cache, scope),
                      stored_count |-> _get_processed_opa_count(session_cache, scope),
                      messages |-> r.messages,
                      processed_opa_count |-> r.processed_opa_count,
                      count_after |-> _get_processed_opa_count(r.cache, scope)]
    /\ UNCHANGED thr_opas
    /\ UNCHANGED <<baseVars, exceptThr>>

\* The run ends: _update_message_history with the final messages of the
\* graph, which stores them unless they are empty.
UpdateMessageHistory ==
    /\ \E p \in Threads, answered \in BOOLEAN :
          LET final_messages ==
                  IF answered THEN thr_messages[p] \o <<AIMessage("answer")>> ELSE <<>>
          IN  /\ thr_pc[p] = "graph"
              /\ Len(final_messages) <= MaxHistory
              /\ session_cache' = IF final_messages # <<>>
                                  THEN _set_messages(session_cache, cache_scope(p), final_messages)
                                  ELSE session_cache
              /\ thr_pc' = [thr_pc EXCEPT ![p] = "idle"]
              /\ thr_messages' = [thr_messages EXCEPT ![p] = <<>>]
    /\ UNCHANGED <<thr_opas, proc_ret, converted>>
    /\ UNCHANGED <<baseVars, exceptThr>>

\* The run raises before _update_message_history: nothing more is stored.
GraphRaises ==
    /\ \E p \in Threads :
          /\ thr_pc[p] = "graph"
          /\ thr_pc' = [thr_pc EXCEPT ![p] = "idle"]
          /\ thr_messages' = [thr_messages EXCEPT ![p] = <<>>]
    /\ UNCHANGED <<thr_opas, session_cache, proc_ret, converted>>
    /\ UNCHANGED <<baseVars, exceptThr>>

-----------------------------------------------------------------------------
(* SqlAlchemyDataSource.execute and aexecute: the path of one query to the  *)
(* backend. execute_sql_query is outside src/; it checks a connection out   *)
(* of the engine's pool (created with pool_pre_ping=True), submits the      *)
(* query and returns the table or the Exception as a value.                 *)

MaxPings == 2          \* failed liveness checks the pool gets in one checkout

SubCalls == {<<"execute", 1>>, <<"aexecute", 1>>, <<"aexecute", 2>>, <<"aexecute", 3>>}
IsAsync(c) == c[1] = "aexecute"
SubOutcomes == {"table", "error", "timeout"}

SubInitState ==
    /\ sub_pc = [c \in SubCalls |-> "idle"]
    /\ sub_permits = max_concurrent_requests
    /\ submissions = [c \in SubCalls |-> 0]
    /\ pings = [c \in SubCalls |-> 0]
    /\ sub_out = [c \in SubCalls |-> ""]

\* return execute_sql_query(...): whatever the outcome, the call returns it.
ReissueOnTimeout(outcome) == IF outcome = "timeout" THEN "checkout" ELSE "done"
AfterOutcome(outcome) == "done"

\* leaving `async with self._semaphore` releases the permit
Released(c, next_pc) == IF IsAsync(c) /\ next_pc = "done" THEN sub_permits + 1 ELSE sub_permits

\* execute(query): no semaphore, straight to execute_sql_query_sync.
SubExecute ==
    /\ \E c \in SubCalls :
          /\ ~IsAsync(c) /\ sub_pc[c] = "idle"
          /\ sub_pc' = [sub_pc EXCEPT ![c] = "checkout"]
    /\ UNCHANGED <<sub_permits, submissions, pings, sub_out>>
    /\ UNCHANGED <<baseVars, exceptSub>>

\* aexecute(query) up to `async with self._semaphore`.
SubAExecute ==
    /\ \E c \in SubCalls :
          /\ IsAsync(c) /\ sub_pc[c] = "idle"
          /\ sub_pc' = [sub_pc EXCEPT ![c] = "waiting"]
    /\ UNCHANGED <<sub_permits, submissions, pings, sub_out>>
    /\ UNCHANGED <<baseVars, exceptSub>>

SubAcquire ==
    /\ \E c \in SubCalls :
          /\ sub_pc[c] = "waiting" /\ sub_permits > 0
          /\ sub_permits' = sub_permits - 1
          /\ sub_pc' = [sub_pc EXCEPT ![c] = "checkout"]
    /\ UNCHANGED <<submissions, pings, sub_out>>
    /\ UNCHANGED <<baseVars, exceptSub>>

\* pool_pre_ping: the pooled connection fails the liveness check and the pool
\* replaces it; nothing of the query has been sent.
SubPingFails ==
    /\ \E c \in SubCalls :
          /\ sub_pc[c] = "checkout" /\ pings[c] < MaxPings
          /\ pings' = [pings EXCEPT ![c] = @ + 1]
    /\ UNCHANGED <<sub_pc, sub_permits, submissions, sub_out>>
    /\ UNCHANGED <<baseVars, exceptSub>>

\* No connection can be made: the Exception is returned, no query was sent.
SubConnectFails ==
    /\ \E c \in SubCalls :
          /\ sub_pc[c] = "checkout" /\ pings[c] > 0
          /\ sub_pc' = [sub_pc EXCEPT ![c] = "done"]
          /\ sub_out' = [sub_out EXCEPT ![c] = "connect_error"]
          /\ sub_permits' = Released(c, "done")
    /\ UNCHANGED <<submissions, pings>>
    /\ UNCHANGED <<baseVars, exceptSub>>

\* The connection is handed out and the query is submitted.
SubSubmit ==
    /\ \E c \in SubCalls :
          /\ sub_pc[c] = "checkout"
          /\ submissions' = [submissions EXCEPT ![c] = @ + 1]
          /\ sub_pc' = [sub_pc EXCEPT ![c] = "running"]
    /\ UNCHANGED <<sub_permits, pings, sub_out>>
    /\ UNCHANGED <<baseVars, exceptSub>>

\* The backend answers, fails or times out; execute / aexecute return that.
SubOutcome ==
    /\ \E c \in SubCalls, outcome \in SubOutcomes :
          /\ sub_pc[c] = "running"
          /\ sub_pc' = [sub_pc EXCEPT ![c] = AfterOutcome(outcome)]
          /\ sub_out' = [sub_out EXCEPT ![c] = outcome]
          /\ sub_permits' = Released(c, AfterOutcome(outcome))
    /\ UNCHANGED <<submissions, pings>>
    /\ UNCHANGED <<baseVars, exceptSub>>

\* The caller makes its next call.
SubNextCall ==
    /\ \E c \in SubCalls :
          /\ sub_pc[c] = "done"
          /\ sub_pc' = [sub_pc EXCEPT ![c] = "idle"]
          /\ submissions' = [submissions EXCEPT ![c] = 0]
          /\ pings' = [pings EXCEPT ![c] = 0]
          /\ sub_out' = [sub_out EXCEPT ![c] = ""]
    /\ UNCHANGED sub_permits
    /\ UNCHANGED <<baseVars, exceptSub>>

-----------------------------------------------------------------------------
(* ainspect_schema with options.cache_intermediate_results: the DiskCache   *)
(* handle of a call and the per-column entries process_column reads and     *)
(* writes. Every call opens DiskCache(DiskCacheConfig()), the same store.   *)

MaxProfiles == 2       \* profilings of one column under the same options

CcRequests == {1, 2}
CcColumns == {"t1.a", "t1.b"}
CcOptions == {"cached", "uncached"}     \* options.cache_intermediate_results set or not
\* The requests made: the columns selected, the description the semantic dict
\* gives them, the options, and whether the dict also names a table that
\* does not exist.
CcRequest(columns, description, options, unknown_table) ==
    [columns |-> columns, description |-> description, options |-> options,
     unknown_table |-> unknown_table]
CcArgs ==
    {CcRequest({"t1.a", "t1.b"}, "d1", "cached", FALSE),
     CcRequest({"t1.b"}, "d2", "cached", FALSE),
     CcRequest({"t1.b"}, "d1", "cached", TRUE),
     CcRequest({"t1.b"}, "d1", "uncached", FALSE)}

\* cache.make_json_key(cache_dict | {"path": f"{cache_tag}/{table_name}/{col_name}"})
make_json_key(args, col) == <<args.options, col>>

\* ColumnSchema(name, dtype, description, values, value_stats) of a fresh profile
FreshColumn(args, col) ==
    [name |-> col, dtype |-> "String", description |-> args.description, values |-> "profile"]

NoCcArgs == [columns |-> {}, description |-> "d1", options |-> "uncached",
             unknown_table |-> FALSE]
NoTask == [pc |-> "none", src |-> "", column |-> "", acquired |-> FALSE]
UsesColumnCache(r) == cc_req[r].args.options = "cached"

CcInitState ==
    /\ cc_req = [r \in CcRequests |-> [pc |-> "idle", args |-> NoCcArgs, handle |-> "none"]]
    /\ cc_task = [r \in CcRequests |-> [c \in CcColumns |-> NoTask]]
    /\ col_cache = <<>>
    /\ cc_permits = max_concurrent_requests
    /\ cc_runs = [c \in CcColumns |-> 0]
    /\ cc_ok = [c \in CcColumns |-> 0]
    /\ cc_overlapped = FALSE

\* if cache is not None ... if cache_key in cache
NeverInColumnCache(r, c) == FALSE
InColumnCache(r, c) ==
    /\ UsesColumnCache(r)
    /\ make_json_key(cc_req[r].args, c) \in DOMAIN col_cache

TasksSettled(r) == \A c \in CcColumns : cc_task[r][c].pc \in {"none", "done", "failed"}

\* ainspect_schema up to the gather of the table tasks: the handle is opened
\* and one process_column task is made for each selected column.
CcBegin ==
    /\ \E r \in CcRequests, args \in CcArgs :
          /\ cc_req[r].pc = "idle"
          /\ cc_req' = [cc_req EXCEPT ![r] =
                 [pc |-> "running", args |-> args,
                  handle |-> IF args.options = "cached" THEN "open" ELSE "none"]]
          /\ cc_task' = [cc_task EXCEPT ![r] =
                 [c \in CcColumns |->
                    IF c \in args.columns THEN [NoTask EXCEPT !.pc = "todo"] ELSE NoTask]]
          /\ cc_overlapped' =
                 (cc_overlapped \/ \E o \in CcRequests \ {r} : cc_req[o].pc # "idle")
    /\ UNCHANGED <<col_cache, cc_permits, cc_runs, cc_ok>>
    /\ UNCHANGED <<baseVars, exceptCc>>

\* process_column: `if cache_key in cache: return ColumnSchema.model_validate_json(...)`
CcColumnHit ==
    /\ \E r \in CcRequests, c \in CcColumns :
          /\ cc_task[r][c].pc = "todo"
          /\ InColumnCache(r, c)
          /\ cc_task' = [cc_task EXCEPT ![r][c] =
                 [pc |-> "done", src |-> "cache",
                  column |-> col_cache[make_json_key(cc_req[r].args, c)],
                  acquired |-> FALSE]]
    /\ UNCHANGED <<cc_req, col_cache, cc_permits, cc_runs, cc_ok, cc_overlapped>>
    /\ UNCHANGED <<baseVars, exceptCc>>

\* process_column: no cache or no entry, on to `async with self._semaphore`.
CcColumnMiss ==
    /\ \E r \in CcRequests, c \in CcColumns :
          /\ cc_task[r][c].pc = "todo"
          /\ ~InColumnCache(r, c)
          /\ cc_task' = [cc_task EXCEPT ![r][c].pc = "waiting"]
    /\ UNCHANGED <<cc_req, col_cache, cc_permits, cc_runs, cc_ok, cc_overlapped>>
    /\ UNCHANGED <<baseVars, exceptCc>>

\* The semaphore is acquired and the profiling starts in its thread.
CcProfile ==
    /\ \E r \in CcRequests, c \in CcColumns :
          /\ cc_task[r][c].pc = "waiting" /\ cc_permits > 0
          /\ UsesColumnCache(r) => cc_runs[c] < MaxProfiles
          /\ cc_permits' = cc_permits - 1
          /\ cc_task' = [cc_task EXCEPT ![r][c].pc = "profiling", ![r][c].acquired = TRUE]
          /\ cc_runs' = IF UsesColumnCache(r) THEN [cc_runs EXCEPT ![c] = @ + 1] ELSE cc_runs
    /\ UNCHANGED <<cc_req, col_cache, cc_ok, cc_overlapped>>
    /\ UNCHANGED <<baseVars, exceptCc>>

\* The profiling returns: the ColumnSchema is built and, with a cache, stored.
CcProfiled ==
    /\ \E r \in CcRequests, c \in CcColumns :
          LET key == make_json_key(cc_req[r].args, c)
              column == FreshColumn(cc_req[r].args, c)
          IN  /\ cc_task[r][c].pc = "profiling"
              /\ cc_permits' = cc_permits + 1
              /\ cc_task' = [cc_task EXCEPT ![r][c] =
                     [pc |-> "done", src |-> "fresh", column |-> column, acquired |-> TRUE]]
              /\ col_cache' = IF UsesColumnCache(r) THEN Store(col_cache, key, column)
                              ELSE col_cache
              /\ cc_ok' = IF UsesColumnCache(r) THEN [cc_ok EXCEPT ![c] = @ + 1] ELSE cc_ok
    /\ UNCHANGED <<cc_req, cc_runs, cc_overlapped>>
    /\ UNCHANGED <<baseVars, exceptCc>>

\* The profiling raises: the semaphore is released, nothing is stored.
CcProfileFails ==
    /\ \E r \in CcRequests, c \in CcColumns :
          /\ cc_task[r][c].pc = "profiling"
          /\ cc_permits' = cc_permits + 1
          /\ cc_task' = [cc_task EXCEPT ![r][c].pc = "failed"]
    /\ UNCHANGED <<cc_req, col_cache, cc_runs, cc_ok, cc_overlapped>>
    /\ UNCHANGED <<baseVars, exceptCc>>

\* `if cache is not None: cache.close()` before `return out_schema`
HandleAfterRaise(handle) == handle
HandleAfterReturn(handle) == IF handle = "open" THEN "closed" ELSE handle

\* Every table task returned: the handle is closed and the schema returned.
CcReturn ==
    /\ \E r \in CcRequests :
          /\ cc_req[r].pc = "running"
          /\ ~cc_req[r].args.unknown_table
          /\ \A c \in cc_req[r].args.columns : cc_task[r][c].pc = "done"
          /\ cc_req' = [cc_req EXCEPT ![r].pc = "returned",
                                      ![r].handle = HandleAfterReturn(@)]
    /\ UNCHANGED <<cc_task, col_cache, cc_permits, cc_runs, cc_ok, cc_overlapped>>
    /\ UNCHANGED <<baseVars, exceptCc>>

\* A table task raised (table or column not found, or a profile raised): the
\* gather raises out of ainspect_schema; the other tasks keep running.
CcRaise ==
    /\ \E r \in CcRequests :
          /\ cc_req[r].pc = "running"
          /\ \/ cc_req[r].args.unknown_table
             \/ \E c \in CcColumns : cc_task[r][c].pc = "failed"
          /\ cc_req' = [cc_req EXCEPT ![r].pc = "raised",
                                      ![r].handle = HandleAfterRaise(@)]
    /\ UNCHANGED <<cc_task, col_cache, cc_permits, cc_runs, cc_ok, cc_overlapped>>
    /\ UNCHANGED <<baseVars, exceptCc>>

\* The caller is done with the call and its tasks have ended.
CcNextRequest ==
    /\ \E r \in CcRequests :
          /\ cc_req[r].pc \in {"returned", "raised"}
          /\ TasksSettled(r)
          /\ cc_req' = [cc_req EXCEPT ![r] = [pc |-> "idle", args |-> NoCcArgs, handle |-> "none"]]
          /\ cc_task' = [cc_task EXCEPT ![r] = [c \in CcColumns |-> NoTask]]
    /\ UNCHANGED <<col_cache, cc_permits, cc_runs, cc_ok, cc_overlapped>>
    /\ UNCHANGED <<baseVars, exceptCc>>

-----------------------------------------------------------------------------
(* sqlalchemy_to_postgres_url: from a SQLAlchemy URL to the URL string the  *)
(* DuckDB postgres scanner attaches.  A URL string is a sequence of tokens: *)
(* the delimiters, the names, and the characters of the password one by     *)
(* one, so that percent-encoding and decoding are computed.                 *)

MaxPasswordLen == 3

Unreserved == {"p", "2", "5"}           \* characters quote() leaves alone
SpecialChars == {">", "@", "%"}         \* characters quote(safe="") encodes
PasswordChars == Unreserved \cup SpecialChars
Hex(c) == CASE c = ">" -> <<"3", "E">>
            [] c = "@" -> <<"4", "0">>
            [] c = "%" -> <<"2", "5">>
Passwords == UNION {[1..n -> PasswordChars] : n \in 0..MaxPasswordLen}

\* urllib.parse.quote(s, safe="")
RECURSIVE quote(_)
QuoteNothing(s) == s
quote(s) ==
    IF s = <<>> THEN <<>>
    ELSE (IF Head(s) \in Unreserved THEN <<Head(s)>> ELSE <<"%">> \o Hex(Head(s)))
         \o quote(Tail(s))

\* urllib.parse.unquote(s): a "%" followed by two hex digits is one character
RECURSIVE unquote(_)
unquote(s) ==
    IF s = <<>> THEN <<>>
    ELSE IF /\ Len(s) >= 3 /\ s[1] = "%"
            /\ \E c \in SpecialChars : Hex(c) = <<s[2], s[3]>>
         THEN <<CHOOSE c \in SpecialChars : Hex(c) = <<s[2], s[3]>>>>
              \o unquote(SubSeq(s, 4, Len(s)))
         ELSE <<Head(s)>> \o unquote(Tail(s))

\* str.find: the first position of token t in s, 0 when absent
IndexOf(s, t) ==
    IF \E i \in 1..Len(s) : s[i] = t
    THEN CHOOSE i \in 1..Len(s) : s[i] = t /\ \A j \in 1..(i - 1) : s[j] # t
    ELSE 0

\* The text between "user:" and "@", as written in the string.
RawPassword(s) ==
    LET rest == SubSeq(s, IndexOf(s, "://") + 1, Len(s))
        at == IndexOf(rest, "@")
    IN  IF at >= 3 /\ rest[2] = ":" THEN SubSeq(rest, 3, at - 1) ELSE <<>>

\* sqlalchemy.engine.url.make_url: name[+driver]://[user[:password]@]host[:port][/database][?query]
make_url(s) ==
    LET sep == IndexOf(s, "://")
        rest == SubSeq(s, sep + 1, Len(s))
        at == IndexOf(rest, "@")
        loc == SubSeq(rest, at + 1, Len(rest))
        q == IndexOf(loc, "?")
        noq == IF q = 0 THEN loc ELSE SubSeq(loc, 1, q - 1)
        sl == IndexOf(noq, "/")
        hp == IF sl = 0 THEN noq ELSE SubSeq(noq, 1, sl - 1)
    IN  [name |-> s[1],
         driver |-> IF sep = 4 /\ s[2] = "+" THEN s[3] ELSE "",
         username |-> IF at = 0 THEN "" ELSE rest[1],
         password |-> unquote(RawPassword(s)),
         host |-> IF hp = <<>> THEN "" ELSE hp[1],
         port |-> IF Len(hp) = 3 /\ hp[2] = ":" THEN hp[3] ELSE None,
         database |-> IF sl = 0 THEN None ELSE IF Len(noq) > sl THEN noq[sl + 1] ELSE "",
         query |-> IF q = 0 \/ Len(loc) = q THEN "" ELSE loc[q + 1]]

Netloc(url, written_password) ==
    (IF url.username = "" THEN <<>>
     ELSE <<url.username>>
          \o (IF written_password = <<>> THEN <<>> ELSE <<":">> \o written_password)
          \o <<"@">>)
    \o <<url.host>>
    \o (IF url.port = None THEN <<>> ELSE <<":", url.port>>)
PathAndQuery(url) ==
    (IF url.database = None THEN <<>>
     ELSE IF url.database = "" THEN <<"/">> ELSE <<"/", url.database>>)
    \o (IF url.query = "" THEN <<>> ELSE <<"?", url.query>>)

\* The converter: the scheme is "postgresql" without the driver, the password
\* is percent-encoded, everything else is written as it is.
sqlalchemy_to_postgres_url(url) ==
    <<"postgresql", "://">> \o Netloc(url, quote(url.password)) \o PathAndQuery(url)

\* The URL strings given: a user writes the password as it is, unless it
\* holds an "@", or percent-encoded.
UrlFields ==
    [name : {"postgresql"}, driver : {"", "psycopg2"}, username : {"", "user"},
     password : Passwords, host : {"localhost"}, port : {None, "5432"},
     database : {None, "", "mydb"}, query : {"", "sslmode=require"}]
UrlString(f, raw) ==
    <<f.name>> \o (IF f.driver = "" THEN <<>> ELSE <<"+", f.driver>>) \o <<"://">>
    \o Netloc(f, IF raw THEN f.password ELSE quote(f.password)) \o PathAndQuery(f)
UrlStrings ==
    {UrlString(f, raw) : f \in {g \in UrlFields : g.username = "" => g.password = <<>>},
                         raw \in BOOLEAN}
    \ {UrlString(f, TRUE) : f \in {g \in UrlFields : \E i \in DOMAIN g.password :
                                                        g.password[i] = "@"}}

NoUrl == [name |-> "", driver |-> "", username |-> "", password |-> <<>>, host |-> "",
          port |-> None, database |-> None, query |-> ""]
UrlIdle ==
    /\ url_pc = "string"
    /\ url_str = <<"postgresql", "://", "localhost">>
    /\ url_in = NoUrl /\ url_out = <<>> /\ url_again = <<>>
UrlInit ==
    /\ url_pc = "string"
    /\ url_str \in UrlStrings
    /\ url_in = NoUrl /\ url_out = <<>> /\ url_again = <<>>

\* url = make_url(input_url)
UrlMakeUrl ==
    /\ url_pc = "string"
    /\ url_in' = make_url(url_str)
    /\ url_pc' = "parsed"
    /\ UNCHANGED <<url_str, url_out, url_again>>
    /\ UNCHANGED <<baseVars, exceptUrl>>

\* result = sqlalchemy_to_postgres_url(url)
UrlConvert ==
    /\ url_pc = "parsed"
    /\ url_out' = sqlalchemy_to_postgres_url(url_in)
    /\ url_pc' = "converted"
    /\ UNCHANGED <<url_str, url_in, url_again>>
    /\ UNCHANGED <<baseVars, exceptUrl>>

\* The converter applied to its own output.
UrlConvertAgain ==
    /\ url_pc = "converted"
    /\ url_again' = sqlalchemy_to_postgres_url(make_url(url_out))
    /\ url_pc' = "again"
    /\ UNCHANGED <<url_str, url_in, url_out>>
    /\ UNCHANGED <<baseVars, exceptUrl>>

-----------------------------------------------------------------------------
(* AgentExecutor._get_or_create_cached_graph.  The cache remembers the      *)
(* graph and id(data_connection), id(llm_config).  An object is a serial    *)
(* number (which object it is) at an address; id() is the address, unique   *)
(* among the objects alive at the same time.  _create_graph is abstract: a  *)
(* graph may or may not keep the objects it was created for alive.          *)

MaxObjects == 6        \* objects created in one run

Addrs == {"a1", "a2", "a3", "a4"}
Object(serial, addr) == [serial |-> serial, addr |-> addr]
NoObject == Object(0, "")
\* id(obj)
id(obj) == obj.addr

\* self._cached_compiled_graph is None
NoGraph == [connection |-> NoObject, llm_config |-> NoObject, retains |-> FALSE]
NoCachedGraph == [graph |-> NoGraph, connection_id |-> None, llm_config_id |-> None]
NoGraphRet == [called |-> FALSE, connection |-> NoObject, llm_config |-> NoObject,
               before |-> NoGraph, created |-> FALSE, graph |-> NoGraph]

GraphIdle ==
    /\ _cached_graph = NoCachedGraph
    /\ gr_session = [llm_config |-> Object(1, "a1"), connection |-> NoObject]
    /\ gr_serial = 1
    /\ gr_ret = NoGraphRet
\* AgentExecutor.__init__, and a session with its llm_config and, or not, a
\* DuckDB connection among its sources.
GraphInit ==
    /\ _cached_graph = NoCachedGraph
    /\ \E with_connection \in BOOLEAN :
          /\ gr_session = [llm_config |-> Object(1, "a1"),
                           connection |-> IF with_connection THEN Object(2, "a2")
                                          ELSE NoObject]
          /\ gr_serial = IF with_connection THEN 2 ELSE 1
    /\ gr_ret = NoGraphRet

\* The addresses of the objects a graph keeps alive.
GraphHolds(graph) ==
    IF graph = NoGraph \/ ~graph.retains THEN {}
    ELSE {id(graph.connection), id(graph.llm_config)}
SessionHolds(session) ==
    {id(session.llm_config)} \cup
    (IF session.connection = NoObject THEN {} ELSE {id(session.connection)})

\* _should_recompile_graph(connection_id, llm_config_id)
_should_recompile_graph(cached, connection_id, llm_config_id) ==
    \/ cached.graph = NoGraph
    \/ cached.connection_id # connection_id
    \/ cached.llm_config_id # llm_config_id

\* _cache_graph(compiled_graph, connection_id, llm_config_id)
_cache_graph(compiled_graph, connection_id, llm_config_id) ==
    [graph |-> compiled_graph, connection_id |-> connection_id,
     llm_config_id |-> llm_config_id]

\* _get_or_create_cached_graph(session).  _get_data_connection returns the
\* first DuckDB connection of session.dbs: one among the session's sources,
\* else the connection Session.dbs makes anew on every access.
GraphGetOrCreate ==
    /\ \E addr \in Addrs, retains \in BOOLEAN :
          LET made == gr_session.connection = NoObject
              data_connection == IF made THEN Object(gr_serial + 1, addr)
                                 ELSE gr_session.connection
              llm_config == gr_session.llm_config
              connection_id == id(data_connection)
              llm_config_id == id(llm_config)
              recompile == _should_recompile_graph(_cached_graph, connection_id, llm_config_id)
              compiled_graph == [connection |-> data_connection, llm_config |-> llm_config,
                                 retains |-> retains]
          IN  /\ made => /\ gr_serial < MaxObjects
                         /\ addr \notin SessionHolds(gr_session) \cup GraphHolds(_cached_graph.graph)
              /\ gr_serial' = IF made THEN gr_serial + 1 ELSE gr_serial
              /\ _cached_graph' = IF recompile
                                  THEN _cache_graph(compiled_graph, connection_id, llm_config_id)
                                  ELSE _cached_graph
              /\ gr_ret' = [called |-> TRUE, connection |-> data_connection,
                            llm_config |-> llm_config, before |-> _cached_graph.graph,
                            created |-> recompile, graph |-> _cached_graph'.graph]
    /\ UNCHANGED gr_session
    /\ UNCHANGED <<baseVars, exceptGraph>>

\* The executor is given another session: a new llm_config and, or not, a
\* DuckDB connection of its own.  The objects of the old session are gone
\* unless the cached graph keeps them.
GraphNewSession ==
    /\ \E cfg_addr \in Addrs, con_addr \in Addrs, with_connection \in BOOLEAN :
          /\ gr_serial + (IF with_connection THEN 2 ELSE 1) <= MaxObjects
          /\ cfg_addr \notin GraphHolds(_cached_graph.graph)
          /\ with_connection => /\ con_addr \notin GraphHolds(_cached_graph.graph)
                                /\ con_addr # cfg_addr
          /\ gr_session' = [llm_config |-> Object(gr_serial + 1, cfg_addr),
                            connection |-> IF with_connection
                                           THEN Object(gr_serial + 2, con_addr)
                                           ELSE NoObject]
          /\ gr_serial' = gr_serial + (IF with_connection THEN 2 ELSE 1)
    /\ UNCHANGED <<_cached_graph, gr_ret>>
    /\ UNCHANGED <<baseVars, exceptGraph>>

-----------------------------------------------------------------------------
(* LazyPipe: ask, df, plot, text, code and meta over the lazily             *)
(* materialized data result and visualization.  A data result is named by   *)
(* the executor run that produced it.                                       *)

MaxRuns == 3           \* runs of the data executor on one pipe
MaxQuestions == 2      \* questions asked on one pipe

default_rows_limit == 1000
NoRows == 0 - 1        \* None where a rows limit is expected
RowsLimits == {NoRows, 0, 5}
PlotRequests == {"visualize data", "bars"}

\* `x if x else y`: None and 0 are both false
Truthy(x) == x # NoRows /\ x # 0

NoDataResult == [run |-> 0, rows_limit |-> NoRows, opas |-> 0]
NoVisualisation == [plot_run |-> 0, data_run |-> 0, request |-> ""]
NoPipeRet == [op |-> "none", rows_limit |-> NoRows, invoked |-> FALSE, raised |-> FALSE,
              before |-> [data_materialized |-> FALSE, data_materialized_rows |-> NoRows,
                          opas |-> 0],
              data |-> NoDataResult, plot |-> NoVisualisation]

\* LazyPipe.__init__
PipeInitState ==
    /\ lazy_pipe = [data_materialized |-> FALSE, data_materialized_rows |-> NoRows,
                    data_result |-> NoDataResult,
                    visualization_materialized |-> FALSE,
                    visualization_result |-> NoVisualisation,
                    opas |-> 0, meta |-> {}]
    /\ lp_runs = [data |-> 0, plot |-> 0]
    /\ lp_ret = NoPipeRet

\* if not self.__data_materialized or rows_limit != self.__data_materialized_rows
AlwaysExecutes(p, rows_limit) == TRUE
NeedsExecution(p, rows_limit) ==
    ~p.data_materialized \/ rows_limit # p.data_materialized_rows

\* __materialize_data(rows_limit): the pipe after it, with whether the
\* executor was invoked and whether it raised
materialize_data(p, arg, run, raises) ==
    LET rows_limit == IF Truthy(arg) THEN arg ELSE default_rows_limit
    IN  IF NeedsExecution(p, rows_limit)
        THEN IF raises
             THEN [pipe |-> p, invoked |-> TRUE, raised |-> TRUE]
             ELSE [pipe |-> [p EXCEPT !.data_result =
                                          [run |-> run, rows_limit |-> rows_limit,
                                           opas |-> p.opas],
                                      !.data_materialized = TRUE,
                                      !.data_materialized_rows = rows_limit,
                                      !.meta = @ \cup {"data"}],
                   invoked |-> TRUE, raised |-> FALSE]
        ELSE [pipe |-> p, invoked |-> FALSE, raised |-> FALSE]

\* __materialize_visualization(request, rows_limit), after __materialize_data
materialize_visualization(p, request, run) ==
    IF ~p.visualization_materialized
    THEN [p EXCEPT !.visualization_result =
                       [plot_run |-> run, data_run |-> p.data_result.run,
                        request |-> request],
                   !.visualization_materialized = TRUE,
                   !.meta = @ \cup {"plot", "plot_code"}]
    ELSE p

\* `rows_limit if rows_limit else self.__data_materialized_rows`
PassedLimit(p, rows_limit) ==
    IF Truthy(rows_limit) THEN rows_limit ELSE p.data_materialized_rows

PipeRet(op, rows_limit, m, shown) ==
    [op |-> op, rows_limit |-> rows_limit, invoked |-> m.invoked, raised |-> m.raised,
     before |-> [data_materialized |-> lazy_pipe.data_materialized,
                 data_materialized_rows |-> lazy_pipe.data_materialized_rows,
                 opas |-> lazy_pipe.opas],
     data |-> IF m.raised THEN NoDataResult ELSE m.pipe.data_result,
     plot |-> shown]

\* One of df(rows_limit=...), text(), code: the data result is materialized
\* and one field of it returned.
DataCall(op, rows_limit, raises) ==
    LET m == materialize_data(lazy_pipe, PassedLimit(lazy_pipe, rows_limit),
                              lp_runs.data + 1, raises)
    IN  /\ m.invoked => lp_runs.data < MaxRuns
        /\ lazy_pipe' = m.pipe
        /\ lp_runs' = IF m.invoked THEN [lp_runs EXCEPT !.data = @ + 1] ELSE lp_runs
        /\ lp_ret' = PipeRet(op, rows_limit, m, NoVisualisation)

PipeDf ==
    /\ \E rows_limit \in RowsLimits, raises \in BOOLEAN : DataCall("df", rows_limit, raises)
    /\ UNCHANGED <<baseVars, exceptPipe>>
PipeText ==
    /\ \E raises \in BOOLEAN : DataCall("text", NoRows, raises)
    /\ UNCHANGED <<baseVars, exceptPipe>>
PipeCode ==
    /\ \E raises \in BOOLEAN : DataCall("code", NoRows, raises)
    /\ UNCHANGED <<baseVars, exceptPipe>>

\* plot(request, rows_limit=...)
PipePlot ==
    /\ \E request \in PlotRequests, rows_limit \in RowsLimits, raises \in BOOLEAN :
          LET m == materialize_data(lazy_pipe, PassedLimit(lazy_pipe, rows_limit),
                                    lp_runs.data + 1, raises)
              v == IF m.raised THEN m.pipe
                   ELSE materialize_visualization(m.pipe, request, lp_runs.plot + 1)
          IN  /\ m.invoked => lp_runs.data < MaxRuns
              /\ lp_runs.plot < MaxRuns
              /\ lazy_pipe' = v
              /\ lp_runs' = [data |-> IF m.invoked THEN lp_runs.data + 1 ELSE lp_runs.data,
                             plot |-> IF v.visualization_result # m.pipe.visualization_result
                                      THEN lp_runs.plot + 1 ELSE lp_runs.plot]
              /\ lp_ret' = PipeRet("plot", rows_limit, m,
                                   IF m.raised THEN NoVisualisation
                                   ELSE v.visualization_result)
    /\ UNCHANGED <<baseVars, exceptPipe>>

\* ask(query): self.__opas.append(Opa(query=query))
PipeAsk ==
    /\ lazy_pipe.opas < MaxQuestions
    /\ lazy_pipe' = [lazy_pipe EXCEPT !.opas = @ + 1]
    /\ lp_ret' = [NoPipeRet EXCEPT !.op = "ask"]
    /\ UNCHANGED lp_runs
    /\ UNCHANGED <<baseVars, exceptPipe>>

\* meta: return self.__meta
PipeMeta ==
    /\ lp_ret' = [NoPipeRet EXCEPT !.op = "meta",
                                   !.before = [data_materialized |-> lazy_pipe.data_materialized,
                                               data_materialized_rows |->
                                                   lazy_pipe.data_materialized_rows,
                                               opas |-> lazy_pipe.opas]]
    /\ UNCHANGED <<lazy_pipe, lp_runs>>
    /\ UNCHANGED <<baseVars, exceptPipe>>

-----------------------------------------------------------------------------
(* One run of SqlAlchemyDataSource.ainspect_schema on the event loop: the   *)
(* table tasks, their column tasks and an aexecute of the same source, all  *)
(* under the source's asyncio.Semaphore.  The semaphore queues its waiters  *)
(* first in first out and hands a released permit to the first of them.     *)

MaxCeiling == 2        \* largest config.max_concurrent_requests
MaxRunTables == 1      \* tables of one inspection
MaxRunColumns == 2     \* columns of one inspection, over all its tables

RunTables == 1..MaxRunTables
RunColumns == 1..MaxRunColumns
Aexecute == 0          \* the aexecute, as a waiter of the semaphore

RunCfgs ==
    {cfg \in [ceiling : 1..MaxCeiling, tables : RunTables,
              columns : 0..MaxRunColumns, table_of : [RunColumns -> RunTables]] :
        /\ \A c \in RunColumns :
              cfg.table_of[c] <= cfg.tables /\ (c > cfg.columns => cfg.table_of[c] = 1)
        \* the columns are numbered table by table
        /\ \A c, d \in 1..cfg.columns : c < d => cfg.table_of[c] <= cfg.table_of[d]}

RunIdle ==
    /\ run_cfg = [ceiling |-> 1, tables |-> 1, columns |-> 0,
                  table_of |-> [c \in RunColumns |-> 1]]
    /\ sem_value = 1
    /\ sem_waiters = <<>>
    /\ col_pc = [c \in RunColumns |-> "none"]
    /\ tbl_pc = [t \in RunTables |-> "none"]
    /\ aex_pc = "idle"
    /\ run_pc = "gathering"
    /\ sem_waited = {}

\* ainspect_schema has reached tqdm.gather(*table_tasks): a task per table.
RunInit ==
    /\ run_cfg \in RunCfgs
    /\ sem_value = run_cfg.ceiling
    /\ sem_waiters = <<>>
    /\ col_pc = [c \in RunColumns |-> "none"]
    /\ tbl_pc = [t \in RunTables |-> IF t <= run_cfg.tables THEN "created" ELSE "none"]
    /\ aex_pc = "idle"
    /\ run_pc = "gathering"
    /\ sem_waited = {}

ColumnsOf(t) == {c \in RunColumns : c <= run_cfg.columns /\ run_cfg.table_of[c] = t}
SetPc(pcs, who, to) == [pcs EXCEPT ![who] = to]
Move(who, to) ==
    /\ col_pc' = IF who = Aexecute THEN col_pc ELSE SetPc(col_pc, who, to)
    /\ aex_pc' = IF who = Aexecute THEN to ELSE aex_pc

\* asyncio.Semaphore.acquire: taken at once when a permit is free and nobody
\* queues, else the task queues.
SemaphoreAcquire(who) ==
    IF sem_value > 0 /\ sem_waiters = <<>>
    THEN /\ sem_value' = sem_value - 1
         /\ Move(who, "holding")
         /\ UNCHANGED <<sem_waiters, sem_waited>>
    ELSE /\ sem_waiters' = Append(sem_waiters, who)
         /\ sem_waited' = sem_waited \cup {who}
         /\ Move(who, "waiting")
         /\ UNCHANGED sem_value

\* `async with self._semaphore`: the permit is released however the body ends.
PermitReleasedOnSuccess(outcome) == outcome = "done"
PermitReleased(outcome) == TRUE

\* asyncio.Semaphore.release: the permit goes to the first waiter, if any.
SemaphoreExit(who, outcome) ==
    IF ~PermitReleased(outcome)
    THEN /\ Move(who, outcome)
         /\ UNCHANGED <<sem_value, sem_waiters>>
    ELSE IF sem_waiters = <<>>
    THEN /\ sem_value' = sem_value + 1
         /\ Move(who, outcome)
         /\ UNCHANGED sem_waiters
    ELSE LET first == Head(sem_waiters)
         IN  /\ sem_waiters' = Tail(sem_waiters)
             /\ col_pc' = IF first = Aexecute THEN SetPc(col_pc, who, outcome)
                          ELSE IF who = Aexecute THEN SetPc(col_pc, first, "holding")
                          ELSE SetPc(SetPc(col_pc, who, outcome), first, "holding")
             /\ aex_pc' = IF first = Aexecute THEN "holding"
                          ELSE IF who = Aexecute THEN outcome ELSE aex_pc
             /\ UNCHANGED sem_value

\* process_table up to its gather: a table the raw schema lacks, or an
\* unknown column, raises; otherwise a task per column is created.
RunTableStart ==
    /\ \E t \in RunTables, exists \in BOOLEAN :
          /\ tbl_pc[t] = "created"
          /\ IF exists
             THEN /\ tbl_pc' = SetPc(tbl_pc, t, "gathering")
                  /\ col_pc' = [c \in RunColumns |->
                                   IF c \in ColumnsOf(t) THEN "created" ELSE col_pc[c]]
             ELSE /\ tbl_pc' = SetPc(tbl_pc, t, "raised")
                  /\ UNCHANGED col_pc
    /\ UNCHANGED <<run_cfg, sem_value, sem_waiters, aex_pc, run_pc, sem_waited>>
    /\ UNCHANGED <<baseVars, exceptRun>>

\* process_column: a cached column returns at once, another one enters
\* _process and reaches `async with self._semaphore`.
RunColumnStart ==
    /\ \E c \in RunColumns, cached \in BOOLEAN :
          /\ col_pc[c] = "created"
          /\ IF cached
             THEN /\ col_pc' = SetPc(col_pc, c, "done")
                  /\ UNCHANGED <<sem_value, sem_waiters, aex_pc, sem_waited>>
             ELSE SemaphoreAcquire(c)
    /\ UNCHANGED <<run_cfg, tbl_pc, run_pc>>
    /\ UNCHANGED <<baseVars, exceptRun>>

\* The profile of the column in its thread is over: it returned or raised.
RunColumnEnd ==
    /\ \E c \in RunColumns, outcome \in {"done", "raised"} :
          /\ col_pc[c] = "holding"
          /\ SemaphoreExit(c, outcome)
    /\ UNCHANGED <<run_cfg, tbl_pc, run_pc, sem_waited>>
    /\ UNCHANGED <<baseVars, exceptRun>>

\* await asyncio.gather(*column_tasks) of a table: over when every column
\* task is, raised as soon as one column task has raised.
RunTableEnd ==
    /\ \E t \in RunTables :
          /\ tbl_pc[t] = "gathering"
          /\ \/ /\ \A c \in ColumnsOf(t) : col_pc[c] = "done"
                /\ tbl_pc' = SetPc(tbl_pc, t, "done")
             \/ /\ \E c \in ColumnsOf(t) : col_pc[c] = "raised"
                /\ tbl_pc' = SetPc(tbl_pc, t, "raised")
    /\ UNCHANGED <<run_cfg, sem_value, sem_waiters, col_pc, aex_pc, run_pc, sem_waited>>
    /\ UNCHANGED <<baseVars, exceptRun>>

\* await tqdm.gather(*table_tasks): ainspect_schema returns the schema, or
\* raises the first exception of a table task.
RunEnd ==
    /\ run_pc = "gathering"
    /\ \/ /\ \A t \in RunTables : t <= run_cfg.tables => tbl_pc[t] = "done"
          /\ run_pc' = "returned"
       \/ /\ \E t \in RunTables : tbl_pc[t] = "raised"
          /\ run_pc' = "raised"
    /\ UNCHANGED <<run_cfg, sem_value, sem_waiters, col_pc, tbl_pc, aex_pc, sem_waited>>
    /\ UNCHANGED <<baseVars, exceptRun>>

\* aexecute reaches `async with self._semaphore`
RunAexecuteStart ==
    /\ aex_pc = "idle"
    /\ SemaphoreAcquire(Aexecute)
    /\ UNCHANGED <<run_cfg, tbl_pc, run_pc>>
    /\ UNCHANGED <<baseVars, exceptRun>>

\* execute_sql_query has answered
RunAexecuteEnd ==
    /\ aex_pc = "holding"
    /\ SemaphoreExit(Aexecute, "done")
    /\ UNCHANGED <<run_cfg, tbl_pc, run_pc, sem_waited>>
    /\ UNCHANGED <<baseVars, exceptRun>>

-----------------------------------------------------------------------------
(* DataEngine.get_source_schema and get_source_schemas.  get_db_schema      *)
(* inspects the data source under the inspection config: it answers the     *)
(* schema of that source for that config, or raises.                        *)

NumSchemaCallers == 2       \* asyncio tasks calling the DataEngine
MaxSchemaInspections == 2   \* inspections of one source in one run

SchemaCallers == 1..NumSchemaCallers
\* self.sources, in the order of the constructor's list
EngineSources == <<"s1", "s2">>
SourceArgs == {"s1", "s2", "unknown"}
InspectionConfigs == {"c1", "c2"}

SourceSchema(source, inspection_config) == [source |-> source, config |-> inspection_config]
NoSourceSchema == SourceSchema("", "")
NoSchemaCall == [pc |-> "idle", source |-> "", config |-> "", rest |-> <<>>,
                 at_start |-> NoSourceSchema]
NoSchemaRet == [kind |-> "none", caller |-> 0, source |-> "", config |-> "",
                inspected |-> FALSE, at_start |-> NoSourceSchema, schema |-> NoSourceSchema]

SchemaInitState ==
    /\ _source_schemas = <<>>
    /\ ss_call = [c \in SchemaCallers |-> NoSchemaCall]
    /\ ss_inspections = [s \in {"s1", "s2"} |-> 0]
    /\ ss_ret = NoSchemaRet

\* `source in self._source_schemas`
NeverStored(schemas, source) == FALSE
IsStored(schemas, source) == source \in DOMAIN schemas
StoredFor(schemas, source) ==
    IF source \in DOMAIN schemas THEN schemas[source] ELSE NoSourceSchema

\* self._source_schemas[source] = schema
StoreSchema(schemas, source, schema) ==
    [s \in DOMAIN schemas \cup {source} |-> IF s = source THEN schema ELSE schemas[s]]

\* get_source_schemas: the sources still to ask for, up to the first one
\* whose schema is not stored (the others return without suspending).
RECURSIVE SkipStored(_, _)
SkipStored(schemas, sources) ==
    IF sources = <<>> THEN <<>>
    ELSE IF IsStored(schemas, Head(sources)) THEN SkipStored(schemas, Tail(sources))
    ELSE sources

SchemaRet(kind, c, source, config, inspected, at_start, schema) ==
    [kind |-> kind, caller |-> c, source |-> source, config |-> config,
     inspected |-> inspected, at_start |-> at_start, schema |-> schema]

\* get_source_schema(source, ...) for a name that is no source:
\* `ds = self.sources[source]` raises KeyError.
SchemaGetUnknown ==
    /\ \E c \in SchemaCallers, source \in SourceArgs, config \in InspectionConfigs :
          /\ ss_call[c].pc = "idle"
          /\ ~SeqHas(EngineSources, source)
          /\ ss_ret' = SchemaRet("KeyError", c, source, config, FALSE,
                                 StoredFor(_source_schemas, source), NoSourceSchema)
    /\ UNCHANGED <<_source_schemas, ss_call, ss_inspections>>
    /\ UNCHANGED <<baseVars, exceptSchema>>

\* The schema of the source is stored: it is returned.
SchemaGetStored ==
    /\ \E c \in SchemaCallers, source \in SourceArgs, config \in InspectionConfigs :
          /\ ss_call[c].pc = "idle"
          /\ SeqHas(EngineSources, source)
          /\ IsStored(_source_schemas, source)
          /\ ss_ret' = SchemaRet("returned", c, source, config, FALSE,
                                 StoredFor(_source_schemas, source),
                                 _source_schemas[source])
    /\ UNCHANGED <<_source_schemas, ss_call, ss_inspections>>
    /\ UNCHANGED <<baseVars, exceptSchema>>

\* It is not: the call awaits get_db_schema(ds, inspection_config).
SchemaGetInspect ==
    /\ \E c \in SchemaCallers, source \in SourceArgs, config \in InspectionConfigs :
          /\ ss_call[c].pc = "idle"
          /\ SeqHas(EngineSources, source)
          /\ ~IsStored(_source_schemas, source)
          /\ ss_inspections[source] < MaxSchemaInspections
          /\ ss_call' = [ss_call EXCEPT ![c] = [pc |-> "inspecting", source |-> source,
                                                config |-> config, rest |-> <<>>,
                                                at_start |->
                                                    StoredFor(_source_schemas, source)]]
          /\ ss_inspections' = [ss_inspections EXCEPT ![source] = @ + 1]
    /\ UNCHANGED <<_source_schemas, ss_ret>>
    /\ UNCHANGED <<baseVars, exceptSchema>>

\* The loop of get_source_schemas from the sources `rest` on: it runs until
\* a source has to be inspected, or to its end.
SchemasLoop(c, config, rest, schemas, last) ==
    LET todo == SkipStored(schemas, rest)
    IN  IF todo = <<>>
        THEN /\ ss_call' = [ss_call EXCEPT ![c] = NoSchemaCall]
             /\ ss_ret' = last
             /\ UNCHANGED ss_inspections
        ELSE /\ ss_inspections[Head(todo)] < MaxSchemaInspections
             /\ ss_call' = [ss_call EXCEPT ![c] = [pc |-> "inspecting", source |-> Head(todo),
                                                   config |-> config, rest |-> Tail(todo),
                                                   at_start |->
                                                       StoredFor(schemas, Head(todo))]]
             /\ ss_inspections' = [ss_inspections EXCEPT ![Head(todo)] = @ + 1]
             /\ ss_ret' = last

\* get_source_schemas(inspection_config)
SchemaGetAll ==
    /\ \E c \in SchemaCallers, config \in InspectionConfigs :
          /\ ss_call[c].pc = "idle"
          /\ SchemasLoop(c, config, EngineSources, _source_schemas,
                         IF IsStored(_source_schemas, EngineSources[Len(EngineSources)])
                         THEN SchemaRet("returned", c, EngineSources[Len(EngineSources)],
                                        config, FALSE,
                                        _source_schemas[EngineSources[Len(EngineSources)]],
                                        _source_schemas[EngineSources[Len(EngineSources)]])
                         ELSE ss_ret)
    /\ UNCHANGED _source_schemas
    /\ UNCHANGED <<baseVars, exceptSchema>>

\* get_db_schema has answered: the schema is stored and returned.
SchemaStore ==
    /\ \E c \in SchemaCallers :
          LET this == ss_call[c]
              schema == SourceSchema(this.source, this.config)
              stored == StoreSchema(_source_schemas, this.source, schema)
          IN  /\ this.pc = "inspecting"
              /\ _source_schemas' = stored
              /\ SchemasLoop(c, this.config, this.rest, stored,
                             SchemaRet("returned", c, this.source, this.config, TRUE,
                                       this.at_start, schema))
    /\ UNCHANGED <<baseVars, exceptSchema>>

\* get_db_schema has raised: the exception leaves get_source_schema.
SchemaInspectionFails ==
    /\ \E c \in SchemaCallers :
          /\ ss_call[c].pc = "inspecting"
          /\ ss_call' = [ss_call EXCEPT ![c] = NoSchemaCall]
          /\ ss_ret' = SchemaRet("raised", c, ss_call[c].source, ss_call[c].config, TRUE,
                                 ss_call[c].at_start, NoSourceSchema)
    /\ UNCHANGED <<_source_schemas, ss_inspections>>
    /\ UNCHANGED <<baseVars, exceptSchema>>

-----------------------------------------------------------------------------
(* The default names of add_db and add_df, on an InMemSession and on a      *)
(* DuckDBCollection.  An added object is named by the number of its add.    *)

MaxAdds == 3           \* adds on one session or collection

\* name: "" for None, a default name of another position, or a free name
SessionNameArgs == {"", "db2", "df2", "orders"}
CollectionNameArgs == {"", "db_2", "df_2", "orders"}

Digits == <<"0", "1", "2", "3", "4", "5", "6", "7", "8", "9">>
\* str(n) of a natural number
RECURSIVE str(_)
str(n) == IF n < 10 THEN Digits[n + 1] ELSE str(n \div 10) \o Digits[(n % 10) + 1]

NoAdd == [op |-> "none", on |-> "session", name |-> "", used |-> "", names_before |-> {},
          count_before |-> 0, count_after |-> 0]
NamesInitState ==
    /\ _dbs = <<>>
    /\ _dfs = <<>>
    /\ dc_sources = <<>>
    /\ add_ret = NoAdd
\* A run is on a new InMemSession or on a new DuckDBCollection.
NamesInit ==
    /\ _dbs = <<>>
    /\ _dfs = <<>>
    /\ dc_sources = <<>>
    /\ add_ret \in {NoAdd, [NoAdd EXCEPT !.on = "collection"]}

\* `name or f"{prefix}{n + 1}"`
NextNumber(n) == n + 1
NameOrDefault(name, prefix, n) == IF name # "" THEN name ELSE prefix \o str(NextNumber(n))

\* d[key] = value
SetItem(d, key, value) == [k \in DOMAIN d \cup {key} |-> IF k = key THEN value ELSE d[k]]
\* The objects added to the session so far are numbered 1, 2, ...
Added == {_dbs[k] : k \in DOMAIN _dbs} \cup {_dfs[k] : k \in DOMAIN _dfs}
NextObject == IF Added = {} THEN 1 ELSE Max(Added) + 1
SeqNames(names) == {names[i] : i \in 1..Len(names)}

\* InMemSession.add_db(connection, name=...)
SessionAddDb ==
    /\ \E name \in SessionNameArgs :
          LET conn_name == NameOrDefault(name, "db", Cardinality(DOMAIN _dbs))
              connection == NextObject
          IN  /\ add_ret.on = "session" /\ connection <= MaxAdds
              /\ _dbs' = SetItem(_dbs, conn_name, connection)
              /\ add_ret' = [op |-> "add_db", on |-> "session", name |-> name,
                             used |-> conn_name, names_before |-> DOMAIN _dbs,
                             count_before |-> Cardinality(DOMAIN _dbs),
                             count_after |-> Cardinality(DOMAIN _dbs')]
    /\ UNCHANGED <<_dfs, dc_sources>>
    /\ UNCHANGED <<baseVars, exceptNames>>

\* InMemSession.add_df(df, name=...)
SessionAddDf ==
    /\ \E name \in SessionNameArgs :
          LET df_name == NameOrDefault(name, "df", Cardinality(DOMAIN _dfs))
              df == NextObject
          IN  /\ add_ret.on = "session" /\ df <= MaxAdds
              /\ _dfs' = SetItem(_dfs, df_name, df)
              /\ add_ret' = [op |-> "add_df", on |-> "session", name |-> name,
                             used |-> df_name, names_before |-> DOMAIN _dfs,
                             count_before |-> Cardinality(DOMAIN _dfs),
                             count_after |-> Cardinality(DOMAIN _dfs')]
    /\ UNCHANGED <<_dbs, dc_sources>>
    /\ UNCHANGED <<baseVars, exceptNames>>

\* DuckDBCollection.add_df / add_db: the source is appended to _sources.
collection_add(op, prefix, name) ==
    LET used == NameOrDefault(name, prefix, Len(dc_sources))
    IN  /\ add_ret.on = "collection" /\ Len(dc_sources) < MaxAdds
        /\ dc_sources' = Append(dc_sources, used)
        /\ add_ret' = [op |-> op, on |-> "collection", name |-> name, used |-> used,
                       names_before |-> SeqNames(dc_sources),
                       count_before |-> Cardinality(SeqNames(dc_sources)),
                       count_after |-> Cardinality(SeqNames(dc_sources'))]
CollectionAddDf ==
    /\ \E name \in CollectionNameArgs : collection_add("add_df", "df_", name)
    /\ UNCHANGED <<_dbs, _dfs>>
    /\ UNCHANGED <<baseVars, exceptNames>>
CollectionAddDb ==
    /\ \E name \in CollectionNameArgs : collection_add("add_db", "db_", name)
    /\ UNCHANGED <<_dbs, _dfs>>
    /\ UNCHANGED <<baseVars, exceptNames>>

-----------------------------------------------------------------------------
(* LLMConfig: the validator of the model name and the family computed from  *)
(* it.  A name is its sequence of characters, so that `infix in name` is a  *)
(* search for a substring.                                                  *)

MaxPieces == 3         \* pieces a model name is put together from

_OPENAI_INFIXES == << <<"g", "p", "t">>, <<"o", "1">>, <<"o", "3">> >>
_ANTHROPIC_INFIXES == << <<"c", "l", "a", "u", "d", "e">> >>
_GEMINI_INFIXES == << <<"g", "e", "m", "i", "n", "i">> >>

\* The pieces of the names: the infixes, parts of them, and other text.
NamePieces ==
    { <<"g", "p", "t">>, <<"o", "1">>, <<"o", "3">>, <<"c", "l", "a", "u", "d", "e">>,
      <<"g", "e", "m", "i", "n", "i">>, <<"g">>, <<"p", "t">>, <<"o">>, <<"-">>, <<"4">>,
      <<"l", "l", "a", "m", "a">>, <<"c", "l", "a", "u", "d">> }
RECURSIVE NamesOf(_)
NamesOf(n) ==
    IF n = 0 THEN {<<>>}
    ELSE LET shorter == NamesOf(n - 1)
         IN  shorter \cup {s \o p : s \in shorter, p \in NamePieces}
ModelNames == NamesOf(MaxPieces)

\* `infix in v` for strings
InStr(infix, v) ==
    \E i \in 1..(Len(v) - Len(infix) + 1) : SubSeq(v, i, i + Len(infix) - 1) = infix
\* any(infix in v for infix in infixes)
AnyInfix(infixes, v) == \E k \in 1..Len(infixes) : InStr(infixes[k], v)

\* validate_model_name: whether the name is returned (else ValueError)
AcceptsEveryName(v) == TRUE
AcceptsName(v) == AnyInfix(_OPENAI_INFIXES \o _ANTHROPIC_INFIXES \o _GEMINI_INFIXES, v)

\* LLMConfig.family; "ValueError" for `raise ValueError("Unsupported model
\* family ...")`
family(name) ==
    IF AnyInfix(_OPENAI_INFIXES, name) THEN "openai"
    ELSE IF AnyInfix(_ANTHROPIC_INFIXES, name) THEN "anthropic"
    ELSE IF AnyInfix(_GEMINI_INFIXES, name) THEN "gemini"
    ELSE "ValueError"

LlmIdle ==
    /\ llm_name = <<>>
    /\ llm_pc = "new"
    /\ llm_family = "none"
LlmInit ==
    /\ llm_name \in ModelNames
    /\ llm_pc = "new"
    /\ llm_family = "none"

\* LLMConfig(name=..., ...): the field validator accepts the name
LlmConstruct ==
    /\ llm_pc = "new"
    /\ AcceptsName(llm_name)
    /\ llm_pc' = "constructed"
    /\ UNCHANGED <<llm_name, llm_family>>
    /\ UNCHANGED <<baseVars, exceptLlm>>

\* or raises, and no config exists
LlmReject ==
    /\ llm_pc = "new"
    /\ ~AcceptsName(llm_name)
    /\ llm_pc' = "rejected"
    /\ UNCHANGED <<llm_name, llm_family>>
    /\ UNCHANGED <<baseVars, exceptLlm>>

\* config.family is read
LlmFamily ==
    /\ llm_pc = "constructed"
    /\ llm_family' = family(llm_name)
    /\ llm_pc' = "read"
    /\ UNCHANGED llm_name
    /\ UNCHANGED <<baseVars, exceptLlm>>

-----------------------------------------------------------------------------
(* utils.expand_env_vars_str: the loop that replaces ${name} by the value   *)
(* of the environment variable.  Strings are sequences of characters and    *)
(* positions are Python's, counted from 0.                                  *)

MaxParts == 3          \* parts a path is put together from

PathParts ==
    { <<"$", "{", "a", "}">>, <<"$", "{", "b", "}">>, <<"$", "{">>, <<"}">>, <<"$">>,
      <<"{", "b", "}">>, <<"a">>, <<"$", "{", "}">> }
RECURSIVE PathsOf(_)
PathsOf(n) ==
    IF n = 0 THEN {<<>>}
    ELSE LET shorter == PathsOf(n - 1)
         IN  shorter \cup {s \o p : s \in shorter, p \in PathParts}
ExpandPaths == PathsOf(MaxParts)

\* os.environ, as the set of its (name, value) pairs
EnvVar(name, value) == [name |-> name, value |-> value]
Environments ==
    { {},
      {EnvVar(<<"a">>, <<"b">>)},
      {EnvVar(<<"a">>, <<"$", "{", "b", "}">>), EnvVar(<<"b">>, <<"a">>)},
      {EnvVar(<<"a">>, <<"$">>), EnvVar(<<"b">>, <<>>)},
      {EnvVar(<<"a">>, <<"$", "{", "a", "}">>), EnvVar(<<"b">>, <<"$", "{">>)} }
IsSet(environ, name) == \E v \in environ : v.name = name
ValueOf(environ, name) == (CHOOSE v \in environ : v.name = name).value

\* pattern.search(path, i) for \$\{([^}]*)\}: the leftmost match starting at
\* i or later; its name runs to the first "}".
MatchStarts(path, i) ==
    {s \in i..(Len(path) - 3) :
        /\ path[s + 1] = "$" /\ path[s + 2] = "{"
        /\ \E e \in (s + 3)..Len(path) : path[e] = "}"}
pattern_search(path, i) ==
    LET start == Min(MatchStarts(path, i))
        end == Min({e \in (start + 3)..Len(path) : path[e] = "}"})
    IN  [start |-> start, end |-> end, name |-> SubSeq(path, start + 3, end - 1)]

\* `i = len(path)` after `path = path[:i] + value`
ResumeAtMatch(start, value) == start
ResumeAfterValue(start, value) == start + Len(value)

NoOut == <<"None">>
EnvIdle ==
    /\ ev_arg = <<>>
    /\ ev_environ = {}
    /\ ev_path = <<>>
    /\ ev_i = 0
    /\ ev_pc = "start"
    /\ ev_out = NoOut
EnvInit ==
    /\ ev_arg \in ExpandPaths
    /\ ev_environ \in Environments
    /\ ev_path = ev_arg
    /\ ev_i = 0
    /\ ev_pc = "start"
    /\ ev_out = NoOut

\* if "${" not in path: return path
EnvReturnUnchanged ==
    /\ ev_pc = "start"
    /\ ~\E s \in 1..(Len(ev_path) - 1) : ev_path[s] = "$" /\ ev_path[s + 1] = "{"
    /\ ev_pc' = "returned"
    /\ ev_out' = ev_path
    /\ UNCHANGED <<ev_arg, ev_environ, ev_path, ev_i>>
    /\ UNCHANGED <<baseVars, exceptEnv>>

\* otherwise the loop is entered with i = 0
EnvEnterLoop ==
    /\ ev_pc = "start"
    /\ \E s \in 1..(Len(ev_path) - 1) : ev_path[s] = "$" /\ ev_path[s + 1] = "{"
    /\ ev_pc' = "loop"
    /\ ev_i' = 0
    /\ UNCHANGED <<ev_arg, ev_environ, ev_path, ev_out>>
    /\ UNCHANGED <<baseVars, exceptEnv>>

\* One iteration: the match is replaced by the value of its variable.
EnvSubstitute ==
    /\ ev_pc = "loop"
    /\ MatchStarts(ev_path, ev_i) # {}
    /\ LET m == pattern_search(ev_path, ev_i)
       IN  /\ IsSet(ev_environ, m.name)
           /\ LET value == ValueOf(ev_environ, m.name)
                  tail == SubSeq(ev_path, m.end + 1, Len(ev_path))
              IN  /\ ev_path' = SubSeq(ev_path, 1, m.start) \o value \o tail
                  /\ ev_i' = ResumeAfterValue(m.start, value)
    /\ UNCHANGED <<ev_arg, ev_environ, ev_pc, ev_out>>
    /\ UNCHANGED <<baseVars, exceptEnv>>

\* os.environ[name] raises: KeyError('Environment variable "name" not found')
EnvKeyError ==
    /\ ev_pc = "loop"
    /\ MatchStarts(ev_path, ev_i) # {}
    /\ LET m == pattern_search(ev_path, ev_i)
       IN  /\ ~IsSet(ev_environ, m.name)
           /\ ev_out' = m.name
    /\ ev_pc' = "raised"
    /\ UNCHANGED <<ev_arg, ev_environ, ev_path, ev_i>>
    /\ UNCHANGED <<baseVars, exceptEnv>>

\* No match is left: break, return path.
EnvReturn ==
    /\ ev_pc = "loop"
    /\ MatchStarts(ev_path, ev_i) = {}
    /\ ev_pc' = "returned"
    /\ ev_out' = ev_path
    /\ UNCHANGED <<ev_arg, ev_environ, ev_path, ev_i>>
    /\ UNCHANGED <<baseVars, exceptEnv>>

-----------------------------------------------------------------------------
(* Specifications.                                                          *)

BaseIdle == KeyIdle /\ MemInitState /\ CollInitState /\ SemInitState /\ AgentInitState
ExtIdle == InspIdle /\ ProfIdle /\ EngInitState /\ ThrInitState /\ SubInitState /\ CcInitState /\ UrlIdle /\ GraphIdle /\ PipeInitState /\ RunIdle /\ SchemaInitState /\ NamesInitState /\ LlmIdle /\ EnvIdle

InitKey == KeyInit /\ MemInitState /\ CollInitState /\ SemInitState /\ AgentInitState /\ ExtIdle
NextKey == KeyCall \/ KeyNextArgs
KeySpec == InitKey /\ [][NextKey]_vars

InitMem == KeyIdle /\ MemInitState /\ CollInitState /\ SemInitState /\ AgentInitState /\ ExtIdle
NextMem == MemPut \/ MemGet \/ MemGetMessages
MemSpec == InitMem /\ [][NextMem]_vars

InitColl == KeyIdle /\ MemInitState /\ CollInitState /\ SemInitState /\ AgentInitState /\ ExtIdle
NextColl ==
    \/ CollAInspectHit \/ CollAInspectMiss \/ CollAInspectStore \/ CollAInspectRaise
    \/ CollInspect \/ CollAddDf \/ CollAddDb \/ CollCommit
CollSpec == InitColl /\ [][NextColl]_vars

InitSem == KeyIdle /\ MemInitState /\ CollInitState /\ SemInitState /\ AgentInitState /\ ExtIdle
NextSem == SemEnter \/ SemAcquire \/ SemRelease \/ SyncExecuteBegin \/ SyncExecuteEnd
SemSpec == InitSem /\ [][NextSem]_vars

InitAgent == KeyIdle /\ MemInitState /\ CollInitState /\ SemInitState /\ AgentInitState /\ ExtIdle
NextAgent ==
    \/ AInspectFullBegin \/ AInspectFullEnd
    \/ AgentExecute \/ AgentInspectSchema \/ AgentSystemPrompt \/ AgentStreamStart
    \/ GraphReasoning \/ GraphTool \/ GraphRecursionLimit \/ AgentGetResult
AgentSpec == InitAgent /\ [][NextAgent]_vars

InitInsp == BaseIdle /\ InspInit /\ ProfIdle /\ EngInitState /\ ThrInitState /\ SubInitState /\ CcInitState /\ UrlIdle /\ GraphIdle /\ PipeInitState /\ RunIdle /\ SchemaInitState /\ NamesInitState /\ LlmIdle /\ EnvIdle
NextInsp == InspCall \/ InspNextArgs
InspectSpec == InitInsp /\ [][NextInsp]_vars

InitProf == BaseIdle /\ InspIdle /\ ProfInit /\ EngInitState /\ ThrInitState /\ SubInitState /\ CcInitState /\ UrlIdle /\ GraphIdle /\ PipeInitState /\ RunIdle /\ SchemaInitState /\ NamesInitState /\ LlmIdle /\ EnvIdle
NextProf == ProfCall \/ ProfNextColumn
ProfileSpec == InitProf /\ [][NextProf]_vars

InitEng == BaseIdle /\ InspIdle /\ ProfIdle /\ EngInitState /\ ThrInitState /\ SubInitState /\ CcInitState /\ UrlIdle /\ GraphIdle /\ PipeInitState /\ RunIdle /\ SchemaInitState /\ NamesInitState /\ LlmIdle /\ EnvIdle
NextEng ==
    \/ ExecuteHit \/ ExecuteMiss \/ ExecuteReturn \/ BackendChange
    \/ EnableQueryCache \/ EnableAndValidateBegin \/ EnableAndValidateEnd
EngineSpec == InitEng /\ [][NextEng]_vars

InitThr == BaseIdle /\ InspIdle /\ ProfIdle /\ EngInitState /\ ThrInitState /\ SubInitState /\ CcInitState /\ UrlIdle /\ GraphIdle /\ PipeInitState /\ RunIdle /\ SchemaInitState /\ NamesInitState /\ LlmIdle /\ EnvIdle
NextThr == ThreadAsk \/ ProcessNewOpas \/ UpdateMessageHistory \/ GraphRaises
ThreadSpec == InitThr /\ [][NextThr]_vars

InitSub == BaseIdle /\ InspIdle /\ ProfIdle /\ EngInitState /\ ThrInitState /\ SubInitState /\ CcInitState /\ UrlIdle /\ GraphIdle /\ PipeInitState /\ RunIdle /\ SchemaInitState /\ NamesInitState /\ LlmIdle /\ EnvIdle
NextSub ==
    \/ SubExecute \/ SubAExecute \/ SubAcquire \/ SubPingFails \/ SubConnectFails
    \/ SubSubmit \/ SubOutcome \/ SubNextCall
SubmitSpec == InitSub /\ [][NextSub]_vars

InitCc == BaseIdle /\ InspIdle /\ ProfIdle /\ EngInitState /\ ThrInitState /\ SubInitState /\ UrlIdle /\ GraphIdle /\ PipeInitState /\ RunIdle /\ SchemaInitState /\ NamesInitState /\ LlmIdle /\ EnvIdle
          /\ CcInitState
NextCc ==
    \/ CcBegin \/ CcColumnHit \/ CcColumnMiss \/ CcProfile \/ CcProfiled \/ CcProfileFails
    \/ CcReturn \/ CcRaise \/ CcNextRequest
ColumnCacheSpec == InitCc /\ [][NextCc]_vars

InitUrl == BaseIdle /\ InspIdle /\ ProfIdle /\ EngInitState /\ ThrInitState /\ SubInitState /\ GraphIdle /\ PipeInitState /\ RunIdle /\ SchemaInitState /\ NamesInitState /\ LlmIdle /\ EnvIdle
           /\ CcInitState /\ UrlInit
NextUrl == UrlMakeUrl \/ UrlConvert \/ UrlConvertAgain
UrlSpec == InitUrl /\ [][NextUrl]_vars

InitGraph == BaseIdle /\ InspIdle /\ ProfIdle /\ EngInitState /\ ThrInitState /\ SubInitState /\ PipeInitState /\ RunIdle /\ SchemaInitState /\ NamesInitState /\ LlmIdle /\ EnvIdle
             /\ CcInitState /\ UrlIdle /\ GraphInit
NextGraph == GraphGetOrCreate \/ GraphNewSession
GraphSpec == InitGraph /\ [][NextGraph]_vars

InitPipe == BaseIdle /\ InspIdle /\ ProfIdle /\ EngInitState /\ ThrInitState /\ SubInitState /\ RunIdle /\ SchemaInitState /\ NamesInitState /\ LlmIdle /\ EnvIdle
            /\ CcInitState /\ UrlIdle /\ GraphIdle /\ PipeInitState
NextPipe == PipeAsk \/ PipeDf \/ PipeText \/ PipeCode \/ PipePlot \/ PipeMeta
PipeSpec == InitPipe /\ [][NextPipe]_vars

InitSchema == BaseIdle /\ InspIdle /\ ProfIdle /\ EngInitState /\ ThrInitState /\ SubInitState /\ NamesInitState /\ LlmIdle /\ EnvIdle
              /\ CcInitState /\ UrlIdle /\ GraphIdle /\ PipeInitState /\ RunIdle
              /\ SchemaInitState
NextSchema == SchemaGetUnknown \/ SchemaGetStored \/ SchemaGetInspect \/ SchemaGetAll
              \/ SchemaStore \/ SchemaInspectionFails
SchemaSpec == InitSchema /\ [][NextSchema]_vars

InitNames == BaseIdle /\ InspIdle /\ ProfIdle /\ EngInitState /\ ThrInitState /\ SubInitState /\ LlmIdle /\ EnvIdle
             /\ CcInitState /\ UrlIdle /\ GraphIdle /\ PipeInitState /\ RunIdle
             /\ SchemaInitState /\ NamesInit
NextNames == SessionAddDb \/ SessionAddDf \/ CollectionAddDf \/ CollectionAddDb
NamesSpec == InitNames /\ [][NextNames]_vars

InitLlm == BaseIdle /\ InspIdle /\ ProfIdle /\ EngInitState /\ ThrInitState /\ SubInitState /\ EnvIdle
           /\ CcInitState /\ UrlIdle /\ GraphIdle /\ PipeInitState /\ RunIdle
           /\ SchemaInitState /\ NamesInitState /\ LlmInit
NextLlm == LlmConstruct \/ LlmReject \/ LlmFamily
LlmSpec == InitLlm /\ [][NextLlm]_vars

\* The function is sequential code: its next statement is executed.
InitEnv == BaseIdle /\ InspIdle /\ ProfIdle /\ EngInitState /\ ThrInitState /\ SubInitState
           /\ CcInitState /\ UrlIdle /\ GraphIdle /\ PipeInitState /\ RunIdle
           /\ SchemaInitState /\ NamesInitState /\ LlmIdle /\ EnvInit
NextEnv == EnvReturnUnchanged \/ EnvEnterLoop \/ EnvSubstitute \/ EnvKeyError \/ EnvReturn
ExpandSpec == InitEnv /\ [][NextEnv]_vars /\ WF_vars(NextEnv)

\* The event loop runs a task that is ready, and every profile and query
\* running in a thread ends: a step that stays possible is taken.
InitRun == BaseIdle /\ InspIdle /\ ProfIdle /\ EngInitState /\ ThrInitState /\ SubInitState /\ SchemaInitState /\ NamesInitState /\ LlmIdle /\ EnvIdle
           /\ CcInitState /\ UrlIdle /\ GraphIdle /\ PipeInitState /\ RunInit
NextRun == RunTableStart \/ RunColumnStart \/ RunColumnEnd \/ RunTableEnd \/ RunEnd
           \/ RunAexecuteStart \/ RunAexecuteEnd
InspectRunSpec == InitRun /\ [][NextRun]_vars /\ WF_vars(NextRun)

-----------------------------------------------------------------------------
(* Claims about LighthouseAgent.execute.                                    *)

FailedResult(e) == [text |-> e, df |-> None, meta |-> "{}", sql |-> "", messages |-> <<>>]
PreGraphSteps == {"inspect_schema", "messages[0]", "render_system_prompt", "init_state"}

\* C1: an exception raised while the graph runs is caught by execute, which
\* returns ExecutionResult(text=str(e), df=None, sql="", meta={}, messages=[]):
\* a run that failed in the stream has returned, never raised, and its result
\* has exactly that shape with the failure's text.
C1_GraphFailureReturned ==
    raised_in = "stream" =>
        /\ pc = "returned"
        /\ exception # ""
        /\ result = FailedResult(exception)

C1_Witness ==
    /\ pc = "returned" /\ raised_in = "stream" /\ exception = "OracleError"
    /\ steps > 0 /\ result.text = "OracleError" /\ result.messages = <<>>

\* C2 as stated: a failed ask never raises, whichever step fails.
C2_NeverRaises == pc # "raised"

\* C2 amended: only a failure during the graph run is returned as a result
\* whose text is the failure; a failure of schema inspection, of reading the
\* first message of an empty conversation, of prompt rendering or of the
\* initial-state construction leaves execute as an exception, with no result.
C2_OnlyGraphFailuresReturned ==
    /\ pc = "raised" <=> raised_in \in PreGraphSteps
    /\ pc = "raised" => result = NoResult /\ exception # ""
    /\ raised_in = "stream" => pc = "returned" /\ result.text = exception
    /\ pc = "returned" => raised_in \in {"none", "stream"}

C2_Witness ==
    /\ pc = "raised" /\ raised_in = "init_state" /\ exception = "StateError"
    /\ messages # <<>> /\ db_schema # NoSchema

AiMessages(msgs) == {i \in 1..Len(msgs) : msgs[i].type = "ai"}

\* C3: the run never takes more than 50 steps, each step of the run counts
\* once, and a run that is still asking for steps at the ceiling can only end
\* with the failure result of a GraphRecursionError; a run in which every
\* oracle answer requests a tool call ends exactly so.
C3_RecursionCeiling ==
    [][ /\ steps' <= RecursionLimit
        /\ (pc = "stream" /\ pc' = "stream" /\ node # "end") => steps' = steps + 1
        /\ (pc = "stream" /\ node # "end" /\ steps = RecursionLimit) =>
              /\ pc' = "returned"
              /\ exception' = "GraphRecursionError"
              /\ result' = FailedResult("GraphRecursionError")
        /\ exception' = "GraphRecursionError" => steps' = RecursionLimit
      ]_vars

C3_Witness ==
    /\ pc = "returned" /\ exception = "GraphRecursionError"
    /\ steps = RecursionLimit
    /\ Len(tool_log) = RecursionLimit \div 2
    /\ \A i \in AiMessages(last_state.messages) : last_state.messages[i].content = "tool_call"
    /\ Cardinality(AiMessages(last_state.messages)) >= RecursionLimit \div 2
    /\ result = FailedResult("GraphRecursionError")

IsTable(b) == b \in {"T1", "T2"}
TableCalls(log) == {i \in 1..Len(log) : IsTable(log[i])}
LastTable(log) == IF TableCalls(log) = {} THEN None ELSE log[Max(TableCalls(log))]

\* C4: a query failure that execute returns as a value does not end the loop:
\* the error text is appended as the tool result, the table fetched so far is
\* kept and the oracle is consulted again; the table of a run that ends with
\* a final answer is that of the last tool call that returned one.
C4_ErrorValueIsToolResult ==
    [][ /\ (pc = "stream" /\ node = "tool" /\ tool_log' # tool_log
               /\ LastOf(tool_log') = "query_failure") =>
              /\ pc' = "stream" /\ node' = "reasoning"
              /\ last_state'.messages =
                    Append(last_state.messages, Message("tool", "ExecutionError"))
              /\ last_state'.df = last_state.df
        /\ (pc' = "returned" /\ raised_in' = "none") =>
              /\ result'.df = LastTable(tool_log')
              /\ result'.messages = last_state'.messages
      ]_vars

C4_Witness ==
    /\ pc = "returned" /\ raised_in = "none"
    /\ tool_log = <<"query_failure", "T1">>
    /\ result.df = "T1"
    /\ \E i \in 1..Len(result.messages) : result.messages[i] = Message("tool", "ExecutionError")

Started == pc = "stream" \/ (pc = "returned" /\ in_messages # <<>>)

\* C5: the conversation handed to the graph starts with a system message; it
\* is the caller's conversation itself when that already starts with one, and
\* otherwise the caller's conversation with one rendered system prompt put
\* in front of it.
C5_SystemMessageFirst ==
    Started =>
        /\ messages[1].type = "system"
        /\ messages = IF in_messages[1].type = "system" THEN in_messages
                      ELSE <<SystemMessage(render_system_prompt(db_schema))>> \o in_messages

C5_Witness ==
    /\ pc = "stream" /\ steps > 0
    /\ in_messages[1].type = "human"
    /\ Len(messages) = Len(in_messages) + 1
    /\ messages[1] = SystemMessage(render_system_prompt(db_schema))
    /\ messages[2].type = "human"

-----------------------------------------------------------------------------
(* Claims.                                                                  *)

SameRequest(a, b) ==
    /\ LogicallyEqual(SemanticDicts[a.sd], SemanticDicts[b.sd])
    /\ LogicallyEqual(model_dump_for_cache(OptionsList[a.opt]),
                      model_dump_for_cache(OptionsList[b.opt]))

\* C9: two calls of get_inspection_cache_key on logically identical
\* (semantic_dict, options), whatever the insertion order of their dicts,
\* return the same string; two calls whose options differ only in
\* max_enum_values return different strings.
C9_KeyDeterministic ==
    key_pc = "called" =>
        /\ SameRequest(key_args[1], key_args[2]) => key_out[1] = key_out[2]
        /\ ( /\ LogicallyEqual(SemanticDicts[key_args[1].sd], SemanticDicts[key_args[2].sd])
             /\ DifferOnlyInMaxEnumValues(OptionsList[key_args[1].opt],
                                          OptionsList[key_args[2].opt]) )
           => key_out[1] # key_out[2]

\* Two logically identical dicts in different insertion orders were keyed,
\* and so were two requests that differ only in max_enum_values.
C9_Witness ==
    /\ key_pc = "called"
    /\ key_args[1].sd = 9 /\ key_args[2].sd = 10
    /\ key_args[1].opt = key_args[2].opt
    /\ key_out[1] = key_out[2]
    /\ key_out[1] # NoKey

\* C10: get(k) returns the value of the most recent put(k, v), whatever was
\* put to other keys in between.
C10_LastWriteWins ==
    /\ got.outcome = "value" => got.v = LastPut(put_log, got.k)
    /\ got.outcome = "KeyError" => PutsTo(put_log, got.k) = {}

\* A key was put twice with different values, another key was put after it,
\* and the get returned the second value.
C10_Witness ==
    /\ got.outcome = "value"
    /\ Len(put_log) = 3
    /\ put_log[1].k = got.k /\ put_log[2].k = got.k /\ put_log[3].k # got.k
    /\ put_log[1].v # put_log[2].v
    /\ got.v = put_log[2].v


\* C6 as stated: over a sequence of calls none of which overlaps another,
\* with no added source committed in between, the underlying inspector runs
\* at most once per cache key.
C6_InspectedOncePerKey == ~overlapped => \A k \in CollKeys : inspect_runs[k] <= 1

\* C6 as amended: once a schema is stored for a key, every call with that
\* key that starts before the next commit of added data returns the stored
\* schema without running the inspector; a successful inspection leaves its
\* schema stored.
C6_StoredSchemaReused ==
    /\ ret.had_entry => ret.kind = "hit" /\ ~ret.ran
    /\ ret.kind = "hit" => ret.had_entry /\ ret.schema.for_key = ret.key
    /\ stored_ok \subseteq DOMAIN _schema_inspection_cache

\* An ainspect_schema call found the schema that one earlier inspection had
\* stored, and returned it.
C6_Witness ==
    /\ ret.kind = "hit"
    /\ ret.caller \in AsyncCallers
    /\ inspect_runs[ret.key] = 1
    /\ ret.schema = _schema_inspection_cache[ret.key]

InFlight(k) == {t \in AsyncCallers : Awaiting(t) /\ call[t].key = k}

\* C7: at most one underlying inspection per cache key is in flight at any
\* moment.
C7_OneInFlightPerKey == \A k \in CollKeys : Cardinality(InFlight(k)) <= 1

C11_MissNeverRaises == got.outcome # "KeyError"

\* C11 as amended: get raises KeyError exactly when the key was never put and
\* returns the stored value otherwise, so at the cache a miss differs from a
\* stored empty artifact; _get_messages turns the KeyError into [], which is
\* also what it returns for a stored empty list.
C11_MissRaisesKeyError ==
    /\ got.outcome # "none" =>
          /\ got.outcome = "KeyError" <=> got.k \notin DOMAIN _cache
          /\ got.outcome = "value" <=> got.k \in DOMAIN _cache
          /\ got.outcome = "value" => got.v = _cache[got.k]
    /\ read # NoRead =>
          /\ got.k = "messages"
          /\ read = "[]" <=> (got.outcome = "KeyError" \/ got.v = "b0")

\* Another key was put, and reading the messages, never put, raised KeyError
\* inside _get_messages, which returned [].
C11_Witness ==
    /\ put_log # <<>>
    /\ got.outcome = "KeyError" /\ got.k = "messages"
    /\ read = "[]"

-----------------------------------------------------------------------------
(* Claims about SqlAlchemyDataSource.ainspect_schema.                       *)

\* What the caller asked for, read off the arguments.
InspRaw == RawSchemas[insp_args.raw]
AskedTables == DictGet(ExpandFull(SemanticDicts[insp_args.sd], InspRaw), "tables")
AskedNames == {AskedTables.v[i].k : i \in 1..Len(AskedTables.v)}
InRaw(t) == SeqHas(RawNames(InspRaw), t)
AskedAll(t) == t \in AskedNames /\ IsStr(DictGet(AskedTables, t), "\"all\"")
AskedColumns(t) == DictGet(DictGet(AskedTables, t), "columns")
ByTablesRegex(t) ==
    /\ t \notin AskedNames
    /\ insp_args.tables_regex # NoRegex
    /\ InRaw(t) /\ t \in insp_args.tables_regex.matches
ByColumnsRegex(t, c) ==
    /\ insp_args.columns_regex # NoRegex
    /\ SeqHas(RawColumns(InspRaw, t), c) /\ c \in insp_args.columns_regex.matches
UnknownTables == {t \in AskedNames : ~InRaw(t)}
UnknownColumns ==
    {tc \in AskedNames \X {"a", "b", "c"} :
        /\ InRaw(tc[1]) /\ ~AskedAll(tc[1])
        /\ DictHas(AskedColumns(tc[1]), tc[2])
        /\ ~SeqHas(RawColumns(InspRaw, tc[1]), tc[2])}
\* The columns the call selects: table t, column c.
Selects(t, c) ==
    /\ InRaw(t) /\ SeqHas(RawColumns(InspRaw, t), c)
    /\ \/ AskedAll(t)
       \/ ByTablesRegex(t)
       \/ t \in AskedNames /\ ~AskedAll(t) /\ DictHas(AskedColumns(t), c)
       \/ t \in AskedNames /\ ~AskedAll(t) /\ ByColumnsRegex(t, c)
SelectedTables == AskedNames \cup {t \in {"t1", "t2"} : ByTablesRegex(t)}

\* What the call returned.
OutNames == {insp_out.tables[i].name : i \in 1..Len(insp_out.tables)}
OutTable(t) == insp_out.tables[CHOOSE i \in 1..Len(insp_out.tables) : insp_out.tables[i].name = t]
OutColumnNames(t) == [i \in 1..Len(OutTable(t).columns) |-> OutTable(t).columns[i].name]
OutHas(t, c) == t \in OutNames /\ SeqHas(OutColumnNames(t), c)
OutDescription(t, c) ==
    LET cols == OutTable(t).columns
    IN  cols[CHOOSE i \in 1..Len(cols) : cols[i].name = c].description
InspReturned == insp_pc = "done" /\ insp_out.kind = "schema"

\* C12: when the semantic dict names a table, or a column of a selected
\* table, that the raw schema lacks, ainspect_schema raises the error of an
\* unknown reference (a ValueError), whose message names that table, or that
\* table.column with the available columns, and returns no schema; such an
\* error is raised for no other reason.
C12_UnknownReferenceRaises ==
    insp_pc = "done" =>
        /\ (UnknownTables # {} \/ UnknownColumns # {}) =>
              /\ insp_out.kind = "raised" /\ insp_out.exc_type = "ValueError"
              /\ insp_out.tables = <<>>
              /\ \/ \E t \in UnknownTables :
                        insp_out.msg = "Table " \o t \o " doesn't exist."
                 \/ \E tc \in UnknownColumns :
                        insp_out.msg = "Column " \o tc[1] \o "." \o tc[2]
                            \o " doesn't exist. Available columns: "
                            \o ListRepr(RawColumns(InspRaw, tc[1]))
        /\ insp_out.exc_type = "ValueError" => (UnknownTables # {} \/ UnknownColumns # {})

C12_Witness ==
    /\ insp_pc = "done" /\ insp_args.sd = 10 /\ insp_args.raw = 1
    /\ insp_args.fails = "t1.a"
    /\ insp_out.kind = "raised"
    /\ insp_out.msg = "Column t2.b doesn't exist. Available columns: ['a', 'c']"

\* C13: in a returned schema every table selected with "all", explicitly or
\* through "full", has exactly the columns of the raw table, whatever
\* columns_regex is; and "full" selects exactly the raw tables.
C13_AllSelectsEveryColumn ==
    InspReturned =>
        /\ \A t \in AskedNames :
              AskedAll(t) => t \in OutNames /\ OutColumnNames(t) = RawColumns(InspRaw, t)
        /\ IsStr(SemanticDicts[insp_args.sd], "\"full\"") =>
              [i \in 1..Len(insp_out.tables) |-> insp_out.tables[i].name] = RawNames(InspRaw)

C13_Witness ==
    /\ InspReturned /\ insp_args.sd = 1 /\ insp_args.raw = 1
    /\ insp_args.columns_regex.pattern = "b"
    /\ insp_args.tables_regex.pattern = "t2"
    /\ OutColumnNames("t1") = <<"a", "b">> /\ OutColumnNames("t2") = <<"a", "c">>

C15_AllOrNothing ==
    insp_pc = "done" =>
        /\ insp_out.kind \in {"schema", "raised"}
        /\ insp_out.kind = "raised" <=> insp_out.exc_type # ""
        /\ insp_out.kind = "raised" => insp_out.tables = <<>>
        /\ insp_out.kind = "schema" =>
              /\ SelectedTables \subseteq OutNames
              /\ \A t \in SelectedTables : \A c \in {"a", "b", "c"} :
                    Selects(t, c) => OutHas(t, c)
        /\ (\E t \in SelectedTables : \E c \in {"a", "b", "c"} :
               Selects(t, c) /\ insp_args.fails = t \o "." \o c) =>
              insp_out.kind = "raised"

C15_Witness ==
    /\ insp_pc = "done" /\ insp_args.sd = 2 /\ insp_args.raw = 1
    /\ insp_args.tables_regex.pattern = "t2" /\ insp_args.fails = "t2.c"
    /\ insp_out.kind = "raised" /\ insp_out.exc_type = "ProfilingError"
    /\ insp_out.tables = <<>>

-----------------------------------------------------------------------------
(* Claims about SqlAlchemyDataSource._inspect_column_values.                *)

Issued(name) == {i \in 1..Len(prof_out.queries) : prof_out.queries[i].q = name}
Profiled == prof_pc = "done"

\* C16: with value_sampling_strategy NONE and inspect_column_stats false,
\* _inspect_column_values issues no query and returns an empty values list and
\* empty statistics; under every other combination of the two options it
\* issues the general-statistics query, once and first.
C16_ProfilesOnlyWhenAsked ==
    Profiled =>
        IF /\ prof_args.options.value_sampling_strategy = "NONE"
           /\ ~prof_args.options.inspect_column_stats
        THEN /\ prof_out.queries = <<>>
             /\ prof_out.values = <<>>
             /\ prof_out.stats.fields = {}
             /\ prof_out.stats.top_k_values_with_frequencies = None
        ELSE Issued("retrieve_general_stats") = {1}

C16_Witness ==
    /\ Profiled
    /\ prof_args.options.value_sampling_strategy = "NONE"
    /\ ~prof_args.options.inspect_column_stats
    /\ prof_args.col.is_string_dtype /\ prof_args.col.is_low_cardinality_dtype
    /\ prof_out.queries = <<>>

\* C17: under CATEGORICAL_ONLY the distinct values of a column are fetched
\* exactly when the column is string-typed and either its dtype is
\* low-cardinality or n_unique < max_enum_values; the one fetch asks for
\* max_enum_values + 1 values; a column that is not fetched has an empty
\* values list.
C17_CategoricalOnlyFetch ==
    (Profiled /\ prof_args.options.value_sampling_strategy = "CATEGORICAL_ONLY") =>
        LET fetches == Issued("fetch_distinct_values")
        IN  /\ fetches # {} <=>
                  /\ prof_args.col.is_string_dtype
                  /\ \/ prof_args.col.is_low_cardinality_dtype
                     \/ prof_args.general_stats.n_unique < prof_args.options.max_enum_values
            /\ Cardinality(fetches) <= 1
            /\ \A i \in fetches :
                  prof_out.queries[i].args = <<prof_args.options.max_enum_values + 1>>
            /\ fetches = {} => prof_out.values = <<>>

C17_Witness ==
    /\ Profiled /\ prof_args.options.value_sampling_strategy = "CATEGORICAL_ONLY"
    /\ prof_args.col.is_string_dtype /\ ~prof_args.col.is_low_cardinality_dtype
    /\ prof_args.general_stats.n_unique = 1 /\ prof_args.options.max_enum_values = 2
    /\ \E i \in Issued("fetch_distinct_values") : prof_out.queries[i].args = <<3>>

\* C18: the top-k values of a column are fetched exactly when the strategy is
\* TOP_P and either the column is not id-like, not a datetime, not an array,
\* not an aggregate function and its unique_rate is not above max_unique_rate,
\* or n_unique < max_enum_values; so an id-like column gets top-k values only
\* when n_unique < max_enum_values, and no other strategy fetches them.
C18_TopKFetch ==
    Profiled =>
        LET fetched == Issued("retrieve_top_k_values") # {}
        IN  /\ fetched <=>
                  /\ prof_args.options.value_sampling_strategy = "TOP_P"
                  /\ \/ /\ ~prof_args.col.is_id_column
                        /\ ~prof_args.col.is_datetime_dtype
                        /\ ~prof_args.col.is_array_dtype
                        /\ ~prof_args.col.is_aggregate_function
                        /\ prof_args.general_stats.unique_rate <= prof_args.options.max_unique_rate
                     \/ prof_args.general_stats.n_unique < prof_args.options.max_enum_values
            /\ fetched <=> prof_out.stats.top_k_values_with_frequencies # None
            /\ (fetched /\ prof_args.col.is_id_column) =>
                  prof_args.general_stats.n_unique < prof_args.options.max_enum_values

C18_Witness ==
    /\ Profiled /\ prof_args.options.value_sampling_strategy = "TOP_P"
    /\ prof_args.col.is_id_column
    /\ prof_args.general_stats.unique_rate = 100
    /\ prof_args.general_stats.n_unique < prof_args.options.max_enum_values
    /\ Issued("retrieve_top_k_values") # {}
    /\ prof_out.stats.top_k_values_with_frequencies = "top_k_values"

-----------------------------------------------------------------------------
(* Claims about DataEngine.execute.                                         *)

\* The last call to return looked the cache up after some call had stored and
\* returned a table for its query.
AfterSettled == ~exec_ret.skip_cache /\ exec_ret.enabled /\ exec_ret.settled # None

-----------------------------------------------------------------------------
(* Claims about AgentExecutor._process_new_opas.                            *)

\* The last call returned the history stored before it followed by one
\* HumanMessage for each opa from the stored count on, in order, and left
\* len(opas) as the stored count.
ReturnedByCursor ==
    proc_ret.thread # 0 =>
        LET n == Len(proc_ret.opas) - proc_ret.stored_count
        IN  /\ n >= 0
            /\ proc_ret.messages =
                  proc_ret.stored_messages
                  \o [i \in 1..n |->
                        [type |-> "human",
                         content |-> proc_ret.opas[proc_ret.stored_count + i].query]]
            /\ proc_ret.processed_opa_count = Len(proc_ret.opas)
            /\ proc_ret.count_after = Len(proc_ret.opas)
ConvertedOnce == \A p \in Threads : \A i \in 1..MaxOpas : converted[p][i] <= 1
CountGrows ==
    \A p \in Threads :
        _get_processed_opa_count(session_cache', cache_scope(p))
            >= _get_processed_opa_count(session_cache, cache_scope(p))

\* C20: within one cache scope _process_new_opas returns the stored message
\* history followed by exactly one HumanMessage per opa at index >= the stored
\* processed count, in opa order, and leaves len(opas) as the stored count;
\* over any sequence of calls no opa is converted twice and the stored count
\* never decreases.
C20_CursorAppend == [](ReturnedByCursor /\ ConvertedOnce) /\ [][CountGrows]_vars

\* A second run of a thread got the history its first run stored, followed
\* by the one question asked since.
C20_Witness ==
    /\ proc_ret.thread = 1 /\ proc_ret.stored_count = 1 /\ Len(proc_ret.opas) = 2
    /\ Len(proc_ret.stored_messages) = 2
    /\ Len(proc_ret.messages) = 3
    /\ proc_ret.messages[3] = [type |-> "human", content |-> proc_ret.opas[2].query]
    /\ converted[1][1] = 1 /\ converted[1][2] = 1
    /\ _get_processed_opa_count(session_cache, cache_scope(2)) = 0

-----------------------------------------------------------------------------
(* Claims about SqlAlchemyDataSource.execute / aexecute.                    *)

\* C21: a call of execute or aexecute submits its query to the backend at
\* most once: not before a connection is handed out, exactly once when the
\* call returns the backend's table, error or timeout, and never when no
\* connection could be made; only the pool's liveness check is repeated.
C21_SubmittedAtMostOnce ==
    \A c \in SubCalls :
        /\ submissions[c] <= 1
        /\ sub_pc[c] \in {"idle", "waiting", "checkout"} => submissions[c] = 0
        /\ sub_pc[c] = "running" => submissions[c] = 1
        /\ sub_pc[c] = "done" =>
              submissions[c] = (IF sub_out[c] \in SubOutcomes THEN 1 ELSE 0)

\* An aexecute whose connection failed a liveness check first, and whose query
\* then timed out, returned with the query submitted once.
C21_Witness ==
    \E c \in SubCalls :
        /\ IsAsync(c) /\ sub_pc[c] = "done" /\ sub_out[c] = "timeout"
        /\ pings[c] = MaxPings /\ submissions[c] = 1

-----------------------------------------------------------------------------
(* Claims about the per-column cache of ainspect_schema.                    *)

CachedKey(c) == <<"cached", c>>

C25_CachedColumnIsFresh ==
    \A r \in CcRequests, c \in CcColumns :
        cc_task[r][c].src = "cache" => cc_task[r][c].column = FreshColumn(cc_req[r].args, c)

\* C28: the DiskCache handle a call of ainspect_schema opened is closed when
\* the call has returned and when it has raised.
C28_HandleClosedOnExit ==
    \A r \in CcRequests : cc_req[r].pc \in {"returned", "raised"} => cc_req[r].handle # "open"

-----------------------------------------------------------------------------
(* Claims about sqlalchemy_to_postgres_url.                                 *)

UrlConverted == url_pc \in {"converted", "again"}

-----------------------------------------------------------------------------
(* Claims about the history of a thread.                                    *)

\* C24: the message list _process_new_opas builds for a run holds the
\* HumanMessage of every opa asked so far in the thread, also after a run
\* that advanced the stored count and then failed or ended without final
\* messages.
C24_NoQuestionLost ==
    proc_ret.thread # 0 =>
        \A i \in 1..Len(proc_ret.opas) :
            \E j \in 1..Len(proc_ret.messages) :
                proc_ret.messages[j] = HumanMessage(proc_ret.opas[i].query)

-----------------------------------------------------------------------------
(* Claims about commit and about failed inspections of DuckDBCollection.    *)

\* C26: once added sources are committed every source is registered on the
\* engine and the flag is cleared, and the schema cache holds no schema
\* computed before the commit: every stored schema was computed over the
\* sources registered now.
C26_CommitInvalidates ==
    /\ ~_data_changed => registered = Len(_sources)
    /\ \A k \in DOMAIN _schema_inspection_cache :
          _schema_inspection_cache[k].n_sources = registered

RaiseStoresNothing ==
    (ret' # ret /\ ret'.kind = "raised") =>
        /\ _schema_inspection_cache' = _schema_inspection_cache
        /\ stored_ok' = stored_ok
OnlySuccessStored ==
    /\ DOMAIN _schema_inspection_cache = stored_ok
    /\ \A k \in DOMAIN _schema_inspection_cache : _schema_inspection_cache[k] # NoSchema
    /\ (ret.caller \in AsyncCallers /\ ~ret.had_entry) => ret.ran

\* C27: an inspection that raises propagates to the caller and leaves the
\* schema cache as it was, so that the cache holds exactly the keys of
\* successful inspections, and a call that finds no entry for its key runs
\* the inspection (again).
C27_FailedInspectionStoresNothing == []OnlySuccessStored /\ [][RaiseStoresNothing]_vars

\* After a first inspection of a key had raised, a later call with the same
\* key, overlapping nothing, ran the inspection again and returned its schema.
C27_Witness ==
    /\ ~overlapped
    /\ ret.kind = "fresh" /\ ret.ran /\ ~ret.had_entry
    /\ inspect_runs[ret.key] = 2
    /\ DOMAIN _schema_inspection_cache = {ret.key}

-----------------------------------------------------------------------------
(* Claims about failures and skip_cache in DataEngine.                      *)

\* Caller c's execute returns in this step, having invoked the source.
ExecuteReturns(c) == exec_call[c].pc = "awaiting" /\ exec_call'[c].pc = "idle"

FailureNotStored ==
    \A c \in ExecCallers :
        ExecuteReturns(c) =>
            /\ exec_ret'.caller = c /\ exec_ret'.invoked
            /\ exec_ret'.result \in {backend[exec_call[c].query], QueryFailure}
            /\ exec_ret'.result = QueryFailure => sql' = sql
            /\ sql' # sql => sql' = [sql EXCEPT ![exec_call[c].query] = exec_ret'.result]
OnlyTablesStored ==
    /\ \A q \in SqlQueries : sql[q] \in SqlTables \cup {None}
    /\ exec_ret.hit => exec_ret.result \in SqlTables

\* C29: execute returns an Exception value of the source as its value and
\* leaves the cache unchanged, so the cache never holds a failure and a hit
\* never returns one; whether or not set_sql succeeds, the value returned is
\* the source's, and the only change a return makes to the cache is the
\* entry of its own query.
C29_FailureNeverCached == []OnlyTablesStored /\ [][FailureNotStored]_vars

\* With the cache enabled and skip_cache false an execute returned the
\* source's failure, and the cache holds no entry for the query.
C29_Witness ==
    /\ exec_ret.caller # 0 /\ exec_ret.invoked /\ exec_ret.result = QueryFailure
    /\ ~exec_ret.skip_cache /\ exec_ret.enabled /\ query_cache # None
    /\ sql[exec_ret.query] = None

SkipCacheBypasses ==
    exec_ret.skip_cache => exec_ret.invoked /\ ~exec_ret.hit
SkipCacheWritesNothing ==
    \A c \in ExecCallers :
        (ExecuteReturns(c) /\ exec_call[c].skip_cache) => sql' = sql
ErrorNotUsedToInvalidate ==
    (enable_pc = "validating" /\ enable_pc' # "validating") =>
        /\ enable_pc' = "raised" => sql' = sql /\ settled' = settled
        /\ sql' # sql => sql' = [q \in SqlQueries |-> None]

\* C30: with skip_cache=True execute neither reads nor writes the cache and
\* always invokes the source; the staleness query of
\* enable_and_validate_query_cache runs this way, and when it fails the
\* failure is raised and the cache is left as it was.
C30_SkipCacheBypassesCache ==
    /\ []SkipCacheBypasses
    /\ [][SkipCacheWritesNothing /\ ErrorNotUsedToInvalidate]_vars

\* The staleness query failed while the cache held a table: the failure was
\* raised and the table is still there.
C30_Witness ==
    /\ enable_pc = "raised" /\ query_cache # None
    /\ \E q \in SqlQueries : sql[q] \in SqlTables

-----------------------------------------------------------------------------
(* Claims about the compiled-graph cache.                                   *)

\* C31: _get_or_create_cached_graph creates a graph exactly when none is
\* cached or the connection or the LLM config is another object than the one
\* the cached graph was created for, and the graph it returns was created
\* for the connection and the LLM config of the current call.
C31_GraphCacheCoherent ==
    gr_ret.called =>
        /\ gr_ret.created <=>
              \/ gr_ret.before = NoGraph
              \/ gr_ret.before.connection.serial # gr_ret.connection.serial
              \/ gr_ret.before.llm_config.serial # gr_ret.llm_config.serial
        /\ gr_ret.graph.connection.serial = gr_ret.connection.serial
        /\ gr_ret.graph.llm_config.serial = gr_ret.llm_config.serial

-----------------------------------------------------------------------------
(* Claims about LazyPipe.                                                   *)

\* The limit a call asks for: its explicit rows_limit, else the limit the
\* data was last materialized with, else default_rows_limit.
EffectiveLimit(r) ==
    IF r.rows_limit # NoRows THEN r.rows_limit
    ELSE IF r.before.data_materialized_rows # NoRows THEN r.before.data_materialized_rows
    ELSE default_rows_limit
DataOps == {"df", "text", "code", "plot"}

\* C32: the data executor is invoked only when no data result is
\* materialized yet or the effective rows limit differs from the one last
\* materialized with; after a materialization text(), code and df() without
\* rows_limit do not invoke it; meta and ask never do.
C32_ExecutesOnlyWhenNeeded ==
    /\ lp_ret.invoked =>
          /\ lp_ret.op \in DataOps
          /\ \/ ~lp_ret.before.data_materialized
             \/ EffectiveLimit(lp_ret) # lp_ret.before.data_materialized_rows
    /\ (/\ lp_ret.op \in {"df", "text", "code"} /\ lp_ret.rows_limit = NoRows
        /\ lp_ret.before.data_materialized) => ~lp_ret.invoked
    /\ lp_ret.op \in DataOps /\ ~lp_ret.before.data_materialized => lp_ret.invoked
    /\ lp_ret.op \in {"meta", "ask"} => ~lp_ret.invoked

\* After a materialization with limit 5, text() returned the materialized
\* result without a run of the executor.
C32_Witness ==
    /\ lp_ret.op = "text" /\ ~lp_ret.invoked
    /\ lp_ret.before.data_materialized /\ lp_ret.before.data_materialized_rows = 5
    /\ lp_ret.data.run = 1 /\ lp_runs.data = 1

\* C33: the result text(), df() or code returns comes from an executor run
\* whose opas held every question asked before the call.
C33_AskIsAnswered ==
    (lp_ret.op \in {"df", "text", "code"} /\ ~lp_ret.raised) =>
        lp_ret.data.opas = lp_ret.before.opas

\* C34: the plot that plot() returns was computed from the data result that
\* is materialized, the one df() returns.
C34_PlotOfCurrentData ==
    (lp_ret.op = "plot" /\ ~lp_ret.raised) =>
        lp_ret.plot.data_run = lazy_pipe.data_result.run

-----------------------------------------------------------------------------
(* Claims about the arguments of ainspect_schema.                           *)

\* C35: ainspect_schema leaves the caller's semantic_dict as it was passed,
\* whatever the options: the same table and column entries after the call.
C35_SemanticDictUnchanged ==
    insp_pc = "done" => insp_semantic_dict = SemanticDicts[insp_args.sd]

-----------------------------------------------------------------------------
(* Claims about the concurrency ceiling during a schema inspection.         *)

RunHolders == {c \in RunColumns : col_pc[c] = "holding"}
              \cup (IF aex_pc = "holding" THEN {Aexecute} ELSE {})
\* Every permit taken is held by a column task or an aexecute inside its
\* `async with`: none by a table task waiting for its columns.
PermitsAccounted == sem_value + Cardinality(RunHolders) = run_cfg.ceiling
\* A task that queues stays queued until it is handed a permit, so every
\* queueing task acquires one exactly if from some time on nobody queues.
RunQuiet ==
    /\ run_pc \in {"returned", "raised"}
    /\ \A c \in RunColumns : col_pc[c] # "waiting"
    /\ sem_waiters = <<>> /\ sem_value = run_cfg.ceiling

-----------------------------------------------------------------------------
(* Claims about DataEngine.get_source_schema.                               *)

\* C37, as stated: a source is inspected at most once per DataEngine.
C37_InspectedAtMostOnce == \A s \in DOMAIN ss_inspections : ss_inspections[s] <= 1

\* A call that finds a schema stored for its source returns that schema
\* and inspects nothing, whatever its inspection_config; only a call that
\* found none inspects.
StoredIsReturned ==
    /\ ss_ret.at_start # NoSourceSchema /\ ss_ret.kind # "KeyError" =>
          ss_ret.kind = "returned" /\ ss_ret.schema = ss_ret.at_start /\ ~ss_ret.inspected
    /\ ss_ret.inspected => ss_ret.at_start = NoSourceSchema
    /\ ss_ret.kind = "returned" /\ ss_ret.inspected =>
          ss_ret.schema = SourceSchema(ss_ret.source, ss_ret.config)
\* What is stored for a source is a schema of that source.
StoredOfSource ==
    \A s \in DOMAIN _source_schemas : SeqHas(EngineSources, s) /\ _source_schemas[s].source = s
\* A call that raises, for a failed inspection or an unknown name, leaves
\* the stored schemas as they were.
SchemaRaiseStoresNothing ==
    (ss_ret' # ss_ret /\ ss_ret'.kind \in {"raised", "KeyError"}) =>
        _source_schemas' = _source_schemas
\* Only the end of a successful inspection stores.
OnlyInspectionStores ==
    _source_schemas' # _source_schemas =>
        \E c \in SchemaCallers :
            /\ ss_call[c].pc = "inspecting"
            /\ _source_schemas' = StoreSchema(_source_schemas, ss_call[c].source,
                                              SourceSchema(ss_call[c].source, ss_call[c].config))

\* C37, amended: once a schema is stored for a source, a call for it returns
\* the stored schema without inspecting, whatever its config; a failed
\* inspection and an unknown name store nothing.
C37_StoredSchemaReused ==
    /\ [](StoredIsReturned /\ StoredOfSource)
    /\ [][SchemaRaiseStoresNothing /\ OnlyInspectionStores]_vars

\* A call with config c2 got the schema stored under config c1, without an
\* inspection.
C37_Witness ==
    /\ ss_ret.kind = "returned" /\ ~ss_ret.inspected
    /\ ss_ret.config = "c2" /\ ss_ret.schema = SourceSchema("s1", "c1")
    /\ ss_inspections["s1"] = 1

-----------------------------------------------------------------------------
(* Claims about the default names of added sources.                         *)

\* C38: the default name of an unnamed add_db or add_df is none of the names
\* registered before, so the add registers one more source.
C38_DefaultNameIsFresh ==
    (add_ret.op # "none" /\ add_ret.name = "") =>
        /\ add_ret.used \notin add_ret.names_before
        /\ add_ret.count_after = add_ret.count_before + 1

-----------------------------------------------------------------------------
(* Claims about LLMConfig.                                                  *)

HasGpt == InStr(<<"g", "p", "t">>, llm_name)
HasO1 == InStr(<<"o", "1">>, llm_name)
HasO3 == InStr(<<"o", "3">>, llm_name)
HasClaude == InStr(<<"c", "l", "a", "u", "d", "e">>, llm_name)
HasGemini == InStr(<<"g", "e", "m", "i", "n", "i">>, llm_name)
ModelFamily == {"openai", "anthropic", "gemini"}

\* C39: for every name the validator accepts, family is a ModelFamily and
\* never the error of an unsupported family; it is the first that matches
\* of OPENAI, ANTHROPIC, GEMINI; and a name with none of the known infixes
\* is rejected at construction.
C39_FamilyIsTotal ==
    /\ llm_pc = "read" =>
          /\ llm_family \in ModelFamily
          /\ llm_family = "openai" <=> (HasGpt \/ HasO1 \/ HasO3)
          /\ llm_family = "anthropic" <=> (~(HasGpt \/ HasO1 \/ HasO3) /\ HasClaude)
          /\ llm_family = "gemini" <=> (~(HasGpt \/ HasO1 \/ HasO3) /\ ~HasClaude /\ HasGemini)
    /\ llm_pc = "rejected" <=>
          (llm_pc # "new" /\ ~(HasGpt \/ HasO1 \/ HasO3 \/ HasClaude \/ HasGemini))

\* The name "claude-gemini", which matches two families, gave anthropic.
C39_Witness ==
    /\ llm_pc = "read" /\ llm_family = "anthropic"
    /\ llm_name = <<"c", "l", "a", "u", "d", "e", "-", "g", "e", "m", "i", "n", "i">>

-----------------------------------------------------------------------------
(* Claims about expand_env_vars_str.                                        *)

\* The expansion of a text in one pass: the first ${name} is replaced by the
\* value as it is, and the expansion goes on in the text after it.
KeyErrorOf(name) == <<"KeyError">> \o name
IsKeyError(x) == Len(x) > 0 /\ x[1] = "KeyError"
RECURSIVE ExpandedOnce(_, _)
ExpandedOnce(text, environ) ==
    IF MatchStarts(text, 0) = {} THEN text
    ELSE LET m == pattern_search(text, 0)
             rest == ExpandedOnce(SubSeq(text, m.end + 1, Len(text)), environ)
         IN  IF ~IsSet(environ, m.name) THEN KeyErrorOf(m.name)
             ELSE IF IsKeyError(rest) THEN rest
             ELSE SubSeq(text, 1, m.start) \o ValueOf(environ, m.name) \o rest

\* What is returned is the one-pass expansion of the argument, and a
\* KeyError is raised exactly for the first referenced variable not set.
ExpandsOnce ==
    /\ ev_pc = "returned" => ev_out = ExpandedOnce(ev_arg, ev_environ)
    /\ ev_pc = "raised" => KeyErrorOf(ev_out) = ExpandedOnce(ev_arg, ev_environ)
    /\ ev_pc \in {"start", "loop"} => ev_out = NoOut
\* Each iteration leaves less text to scan.
ScanShrinks ==
    ev_path' # ev_path \/ ev_i' # ev_i =>
        ev_pc = "start" \/ Len(ev_path') - ev_i' < Len(ev_path) - ev_i

\* C40: expand_env_vars_str terminates for every input and environment; a
\* substituted value is never expanded again; and a referenced variable
\* that is not set raises KeyError with no string returned.
C40_ExpandTerminates ==
    /\ []ExpandsOnce
    /\ [][ScanShrinks]_vars
    /\ <>(ev_pc \in {"returned", "raised"})

\* "${a}${b}" with a = "${b}" and b = "a" returned "${b}a".
C40_Witness ==
    /\ ev_pc = "returned"
    /\ ev_arg = <<"$", "{", "a", "}", "$", "{", "b", "}">>
    /\ ev_out = <<"$", "{", "b", "}", "a">>

=============================================================================
